---- MODULE Spec2Model ----
(***************************************************************************)
(* Model of pkg/storage/sqlite.go (package storage): the dynamic schema    *)
(* engine, the catalog relations table_meta / column_meta, and the row     *)
(* access path, over an abstraction of the embedded SQL engine.            *)
(*                                                                         *)
(* Non-ASCII string literals of the source are written in pinyin:          *)
(*   "jishu" (count), "buer" (boolean-as-int), "shuzhi" (number),          *)
(*   "fudian" (float), "changwenben"/"duanwenben" (long/short text),       *)
(*   "shi/fou" (yes/no), "riqi" (date), "shijian" (time),                  *)
(*   "shi" (yes), "fou" (no).                                              *)
(***************************************************************************)
EXTENDS Integers, Sequences, FiniteSets, TLC

VARIABLES
    phys,         \* physical tables of the engine: table name -> table
    table_meta,   \* catalog relation table_meta: table name -> row
    column_meta,  \* catalog relation column_meta: rows in rowid order
    now,          \* the engine's CURRENT_TIMESTAMP, in whole seconds
    lastOp,       \* the last call made on Storage and what it returned
    allOk         \* every schema call so far returned nil

vars == <<phys, table_meta, column_meta, now, lastOp, allOk>>

(***************************************************************************)
(* Bounds of the model.                                                    *)
(***************************************************************************)
MaxRows == 2      \* rows a table holds before InsertRow is no longer tried
MaxFields == 2    \* fields in the field list of one call
MaxDisplayOrder == 3  \* display_order a catalog row reaches before calls stop

(***************************************************************************)
(* Small helpers on functions and sequences.                               *)
(***************************************************************************)
EmptyFn == [x \in {} |-> x]

Put(f, k, v) == [x \in (DOMAIN f) \cup {k} |-> IF x = k THEN v ELSE f[x]]

Del(f, k) == [x \in (DOMAIN f) \ {k} |-> f[x]]

Range(s) == {s[i] : i \in DOMAIN s}

RECURSIVE SeqsUpTo(_, _)
SeqsUpTo(S, n) ==
    IF n = 0 THEN {<<>>}
    ELSE LET shorter == SeqsUpTo(S, n - 1)
         IN  shorter \cup {Append(q, x) : q \in {r \in shorter : Len(r) = n - 1}, x \in S}

(***************************************************************************)
(* Go values (the dynamic `any` of a row payload) and SQL storage values.  *)
(* float64 values are carried in tenths: f10 = 25 is 2.5.                  *)
(***************************************************************************)
GoNil == [go |-> "nil"]
GoString(s) == [go |-> "string", str |-> s]
GoFloat(t) == [go |-> "float64", f10 |-> t]
GoInt(i) == [go |-> "int64", i |-> i]
GoBool(b) == [go |-> "bool", b |-> b]

SqlNull == [sql |-> "null"]
SqlInt(i) == [sql |-> "integer", i |-> i]
SqlReal(t) == [sql |-> "real", f10 |-> t]
SqlText(s) == [sql |-> "text", str |-> s]

(***************************************************************************)
(* String functions of the Go library, tabulated on the strings the model  *)
(* uses.                                                                   *)
(***************************************************************************)
TrimSpace(s) ==
    CASE s = " "   -> ""
      [] s = " 7 " -> "7"
      [] s = " a"  -> "a"
      [] s = " A " -> "A"
      [] s = "A "  -> "A"
      [] OTHER     -> s

ToLower(s) ==
    CASE s = "INTEGER" -> "integer"
      [] s = "Integer" -> "integer"
      [] s = "TEXT"    -> "text"
      [] s = "Bool"    -> "bool"
      [] s = "YES"     -> "yes"
      [] s = "True"    -> "true"
      [] s = "No"      -> "no"
      [] s = "A"       -> "a"
      [] s = " A "     -> " a "
      [] s = "A "      -> "a "
      [] s = "B"       -> "b"
      [] s = "Name"    -> "name"
      [] OTHER         -> s

EqualFold(s, t) == ToLower(s) = ToLower(t)

\* strconv.ParseInt(s, 10, 64): the strings that are base-10 integers.
IntLiterals == {"0", "1", "7", "-3"}

ParseInt(s) ==
    CASE s = "0"  -> 0
      [] s = "1"  -> 1
      [] s = "7"  -> 7
      [] s = "-3" -> -3

\* strconv.ParseFloat(s, 64), in tenths.
FloatLiterals == IntLiterals \cup {"2.5", "7.0"}

ParseFloat(s) ==
    CASE s \in IntLiterals -> 10 * ParseInt(s)
      [] s = "2.5"         -> 25
      [] s = "7.0"         -> 70

\* int64(v) of a float64: truncation toward zero.
TruncFloat(t) == IF t >= 0 THEN t \div 10 ELSE -((-t) \div 10)

\* fmt.Sprint of a non-string value.
Sprint(v) ==
    CASE v.go = "bool"    -> IF v.b THEN "true" ELSE "false"
      [] v.go = "int64"   -> ToString(v.i)
      [] v.go = "float64" ->
            IF v.f10 % 10 = 0 THEN ToString(TruncFloat(v.f10))
            ELSE IF v.f10 = 25 THEN "2.5" ELSE "float"
      [] v.go = "string"  -> v.str

(***************************************************************************)
(* mapType: type hint -> physical storage type, "" when unrecognized.      *)
(***************************************************************************)
mapType(hint) ==
    LET h == ToLower(hint) IN
    CASE h \in {"text", "string", "changwenben", "duanwenben"} -> "TEXT"
      [] h \in {"number", "decimal", "shuzhi", "fudian"}       -> "REAL"
      [] h \in {"integer", "int", "jishu", "buer"}             -> "INTEGER"
      [] h \in {"boolean", "bool", "shi/fou"}                  -> "INTEGER"
      [] h \in {"date", "datetime", "riqi", "shijian"}         -> "TEXT"
      [] OTHER                                                 -> ""

(***************************************************************************)
(* convertValue: coercion of a payload value under a type hint.            *)
(* Result: [err |-> FALSE, val |-> Go value] or [err |-> TRUE].            *)
(***************************************************************************)
Converted(v) == [err |-> FALSE, val |-> v]
ConvertError == [err |-> TRUE, val |-> GoNil]

convertValue(typeHint, val) ==
    LET h == ToLower(typeHint) IN
    IF val = GoNil THEN Converted(GoNil)
    ELSE CASE h \in {"integer", "int", "jishu", "buer"} ->
                CASE val.go = "float64" -> Converted(GoInt(TruncFloat(val.f10)))
                  [] val.go = "int64"   -> Converted(val)
                  [] val.go = "string"  ->
                        IF TrimSpace(val.str) = "" THEN Converted(GoNil)
                        ELSE IF TrimSpace(val.str) \in IntLiterals
                             THEN Converted(GoInt(ParseInt(TrimSpace(val.str))))
                             ELSE ConvertError
                  [] OTHER              -> ConvertError
           [] h \in {"number", "decimal", "shuzhi", "fudian"} ->
                CASE val.go = "float64" -> Converted(val)
                  [] val.go = "int64"   -> Converted(GoFloat(10 * val.i))
                  [] val.go = "string"  ->
                        IF TrimSpace(val.str) = "" THEN Converted(GoNil)
                        ELSE IF TrimSpace(val.str) \in FloatLiterals
                             THEN Converted(GoFloat(ParseFloat(TrimSpace(val.str))))
                             ELSE ConvertError
                  [] OTHER              -> ConvertError
           [] h \in {"boolean", "bool"} ->
                CASE val.go = "bool"   -> Converted(val)
                  [] val.go = "string" ->
                        LET t == ToLower(TrimSpace(val.str)) IN
                        IF t = "" THEN Converted(GoNil)
                        ELSE IF t \in {"true", "1", "shi", "yes"} THEN Converted(GoBool(TRUE))
                        ELSE IF t \in {"false", "0", "fou", "no"} THEN Converted(GoBool(FALSE))
                        ELSE ConvertError
                  [] OTHER             -> ConvertError
           [] OTHER ->  \* date, datetime, riqi, shijian and the default (text) branch
                IF val.go = "string"
                THEN IF TrimSpace(val.str) = "" THEN Converted(GoNil) ELSE Converted(val)
                ELSE Converted(GoString(Sprint(val)))

boolToInt(b) == IF b THEN 1 ELSE 0

(***************************************************************************)
(* The SQL engine, as far as the statements of this package exercise it.   *)
(*                                                                         *)
(* Identifiers are interpolated into statement text unquoted, so what the  *)
(* engine does with a name depends on how the name tokenizes.  The names   *)
(* of the model: SafeIdentifiers are single identifier tokens; "a b" is    *)
(* two tokens, which a column definition reads as column a of declared     *)
(* type "b ..." and every other identifier position rejects.               *)
(***************************************************************************)
SafeIdentifiers == {"a", "b", "c", "t", "u"}

ValidIdent(name) == name \in SafeIdentifiers

ColumnDefParses(ident) == ValidIdent(ident) \/ ident = "a b"

EngineColName(ident) == IF ident = "a b" THEN "a" ELSE ident

Housekeeping == {"id", "created_at", "updated_at"}

\* Column affinity of the declared type `ident`'s extra tokens plus sqlType.
Affinity(ident, sqlType) ==
    CASE sqlType = "TEXT"    -> "TEXT"
      [] sqlType = "INTEGER" -> "INTEGER"
      [] sqlType = "REAL"    -> "REAL"
      [] OTHER               -> IF EngineColName(ident) = ident THEN "BLOB" ELSE "NUMERIC"

RealText(t) ==
    CASE t = 25 -> "2.5"
      [] t = 70 -> "7.0"
      [] t = 0  -> "0.0"
      [] t = 10 -> "1.0"
      [] OTHER  -> "real"

\* The value a column of affinity aff stores when handed v.
ApplyAffinity(aff, v) ==
    CASE v.sql = "null" -> v
      [] aff = "TEXT" ->
            CASE v.sql = "integer" -> SqlText(ToString(v.i))
              [] v.sql = "real"    -> SqlText(RealText(v.f10))
              [] OTHER             -> v
      [] aff \in {"INTEGER", "NUMERIC"} ->
            CASE v.sql = "text" ->
                    IF v.str \in IntLiterals THEN SqlInt(ParseInt(v.str))
                    ELSE IF v.str \in FloatLiterals
                         THEN IF ParseFloat(v.str) % 10 = 0
                              THEN SqlInt(TruncFloat(ParseFloat(v.str)))
                              ELSE SqlReal(ParseFloat(v.str))
                         ELSE v
              [] v.sql = "real" ->
                    IF v.f10 % 10 = 0 THEN SqlInt(TruncFloat(v.f10)) ELSE v
              [] OTHER -> v
      [] aff = "REAL" ->
            CASE v.sql = "text" ->
                    IF v.str \in FloatLiterals THEN SqlReal(ParseFloat(v.str)) ELSE v
              [] v.sql = "integer" -> SqlReal(10 * v.i)
              [] OTHER -> v
      [] OTHER -> v

\* The SQL value the driver binds for a Go value.
Bind(v) ==
    CASE v.go = "nil"     -> SqlNull
      [] v.go = "string"  -> SqlText(v.str)
      [] v.go = "int64"   -> SqlInt(v.i)
      [] v.go = "float64" -> SqlReal(v.f10)
      [] v.go = "bool"    -> SqlInt(boolToInt(v.b))

\* The value of a column no INSERT names: its DEFAULT '<dflt>' or NULL.
ColumnDefault(col) ==
    IF col.dflt = "" THEN SqlNull ELSE ApplyAffinity(col.aff, SqlText(col.dflt))

ColNames(tbl) == {tbl.cols[i].name : i \in DOMAIN tbl.cols}

\* Engine column names compare case-insensitively.
HasColumn(tbl, name) == \E c \in ColNames(tbl) \cup Housekeeping : EqualFold(c, name)

(***************************************************************************)
(* A call in progress: the database, the error so far, the identifiers it  *)
(* interpolated into DDL/DML text, and whether it issued any DDL or any    *)
(* catalog write.                                                          *)
(***************************************************************************)
Ok == "ok"

Begin(db) == [db |-> db, err |-> Ok, idents |-> {}, wrote |-> FALSE]

Issue(st, ids) == [st EXCEPT !.idents = @ \cup ids, !.wrote = TRUE]

Fail(st, e) == [st EXCEPT !.err = e]

WithPhys(st, p) == [st EXCEPT !.db.phys = p]

\* CREATE TABLE IF NOT EXISTS table (id ..., <coldefs>, created_at ..., updated_at ...)
ExecCreateTable(st, table, coldefs) ==
    LET s1    == Issue(st, {table} \cup {coldefs[i].ident : i \in DOMAIN coldefs})
        names == [i \in DOMAIN coldefs |-> EngineColName(coldefs[i].ident)]
    IN  IF ~ValidIdent(table) \/ \E i \in DOMAIN coldefs : ~ColumnDefParses(coldefs[i].ident)
        THEN Fail(s1, "syntax error")
        ELSE IF table \in DOMAIN st.db.phys THEN s1
        ELSE IF \/ \E i, j \in DOMAIN names : i # j /\ EqualFold(names[i], names[j])
                \/ \E i \in DOMAIN names, h \in Housekeeping : EqualFold(names[i], h)
        THEN Fail(s1, "duplicate column name")
        ELSE WithPhys(s1, Put(st.db.phys, table,
                [cols |-> [i \in DOMAIN coldefs |->
                              [name    |-> names[i],
                               aff     |-> Affinity(coldefs[i].ident, coldefs[i].sqlType),
                               notnull |-> coldefs[i].notnull,
                               dflt    |-> coldefs[i].dflt]],
                 rows |-> <<>>,
                 seq  |-> 0,
                 tsDefault |-> TRUE]))

\* ALTER TABLE table ADD COLUMN ident sqlType [NOT NULL] [DEFAULT 'dflt']
ExecAddColumn(st, table, cd) ==
    LET s1 == Issue(st, {table, cd.ident})
        tbl == st.db.phys[table]
        col == [name    |-> EngineColName(cd.ident),
                aff     |-> Affinity(cd.ident, cd.sqlType),
                notnull |-> cd.notnull,
                dflt    |-> cd.dflt]
    IN  IF ~ValidIdent(table) \/ ~ColumnDefParses(cd.ident) THEN Fail(s1, "syntax error")
        ELSE IF table \notin DOMAIN st.db.phys THEN Fail(s1, "no such table")
        ELSE IF HasColumn(tbl, col.name) THEN Fail(s1, "duplicate column name")
        ELSE IF cd.notnull /\ cd.dflt = "" /\ tbl.rows # <<>>
        THEN Fail(s1, "Cannot add a NOT NULL column with default value NULL")
        ELSE WithPhys(s1, [st.db.phys EXCEPT ![table] =
                [@ EXCEPT !.cols = Append(@, col),
                          !.rows = [i \in DOMAIN @ |->
                                      [@[i] EXCEPT !.vals = Put(@, col.name, ColumnDefault(col))]]]])

\* ALTER TABLE table RENAME COLUMN old TO new
ExecRenameColumn(st, table, old, new) ==
    LET s1 == Issue(st, {table, old, new})
        tbl == st.db.phys[table]
    IN  IF ~ValidIdent(table) \/ ~ValidIdent(old) \/ ~ValidIdent(new)
        THEN Fail(s1, "syntax error")
        ELSE IF table \notin DOMAIN st.db.phys THEN Fail(s1, "no such table")
        ELSE IF ~HasColumn(tbl, old) THEN Fail(s1, "no such column")
        ELSE IF HasColumn(tbl, new) THEN Fail(s1, "duplicate column name")
        ELSE WithPhys(s1, [st.db.phys EXCEPT ![table] =
                [@ EXCEPT !.cols = [i \in DOMAIN @ |->
                                      IF @[i].name = old THEN [@[i] EXCEPT !.name = new] ELSE @[i]],
                          !.rows = [i \in DOMAIN @ |->
                                      [@[i] EXCEPT !.vals = Del(Put(@, new, @[old]), old)]]]])

\* ALTER TABLE old RENAME TO new
ExecRenameTable(st, old, new) ==
    LET s1 == Issue(st, {old, new})
    IN  IF ~ValidIdent(old) \/ ~ValidIdent(new) THEN Fail(s1, "syntax error")
        ELSE IF old \notin DOMAIN st.db.phys THEN Fail(s1, "no such table")
        ELSE IF new \in DOMAIN st.db.phys THEN Fail(s1, "there is already another table")
        ELSE WithPhys(s1, Del(Put(st.db.phys, new, st.db.phys[old]), old))

\* DROP TABLE IF EXISTS table
ExecDropTable(st, table) ==
    LET s1 == Issue(st, {table})
    IN  IF ~ValidIdent(table) THEN Fail(s1, "syntax error")
        ELSE WithPhys(s1, Del(st.db.phys, table))

\* PRAGMA table_info(table): the physical columns in declaration order.
PragmaTableInfo(db, table) ==
    IF table \in DOMAIN db.phys
    THEN [i \in DOMAIN db.phys[table].cols |-> db.phys[table].cols[i].name]
    ELSE <<>>

(***************************************************************************)
(* The catalog relations.                                                  *)
(***************************************************************************)
\* json.Marshal of a label list, and json.Unmarshal back into []string.
MarshalLabels(labels) == [json |-> "array", items |-> labels]
UnmarshalLabels(text) == IF text.json = "array" THEN text.items ELSE <<>>

\* Scan of the allow_null INTEGER column into a Go bool.
IntToBool(i) == i # 0

MetaRow(table, f, order) ==
    [table_name    |-> table,
     column_name   |-> f.Name,
     labels        |-> MarshalLabels(f.Labels),
     type_hint     |-> f.TypeHint,
     allow_null    |-> boolToInt(f.AllowNull),
     display_order |-> order]

Field(name, oldName, labels, typeHint, allowNull, default) ==
    [Name |-> name, Labels |-> labels, TypeHint |-> typeHint, AllowNull |-> allowNull,
     OldName |-> oldName, Default |-> default]

\* Rows of column_meta for one table, in rowid order.
MetaRowsOf(db, table) == SelectSeq(db.column_meta, LAMBDA r : r.table_name = table)

\* ORDER BY display_order (rows of equal display_order stay in rowid order).
RECURSIVE SortByOrder(_)
SortByOrder(rows) ==
    IF rows = <<>> THEN <<>>
    ELSE LET least == CHOOSE i \in DOMAIN rows :
                        \A j \in DOMAIN rows :
                            \/ rows[i].display_order < rows[j].display_order
                            \/ rows[i].display_order = rows[j].display_order /\ i <= j
             rest  == [k \in 1..(Len(rows) - 1) |-> IF k < least THEN rows[k] ELSE rows[k + 1]]
         IN  <<rows[least]>> \o SortByOrder(rest)

\* listColumns: the catalog's field list of a table.
listColumns(db, table) ==
    LET rows == SortByOrder(MetaRowsOf(db, table))
    IN  [i \in DOMAIN rows |->
            Field(rows[i].column_name, "", UnmarshalLabels(rows[i].labels),
                  rows[i].type_hint, IntToBool(rows[i].allow_null), "")]

\* ListTables: every table_meta row, ORDER BY table_name, with its fields.
ListTables(db) ==
    [t \in DOMAIN db.table_meta |->
        [Name        |-> t,
         DisplayName |-> db.table_meta[t].display_name,
         Description |-> db.table_meta[t].description,
         Fields      |-> listColumns(db, t)]]

\* upsertMeta with the allow_null column left out of its INSERT: every
\* catalog row then takes the column's declared DEFAULT 1.
upsertMeta_AllowNullOmitted(st, schema) ==
    LET s1   == Issue(st, {})
        kept == SelectSeq(st.db.column_meta, LAMBDA r : r.table_name # schema.Name)
        new  == [i \in DOMAIN schema.Fields |->
                    [MetaRow(schema.Name, schema.Fields[i], i - 1) EXCEPT !.allow_null = 1]]
    IN  [s1 EXCEPT !.db.table_meta =
                        Put(@, schema.Name, [display_name |-> schema.DisplayName,
                                             description  |-> schema.Description]),
                   !.db.column_meta = kept \o new]

\* upsertMeta: one transaction (upsert table_meta, delete the table's
\* column_meta rows, insert one row per field with display_order i).
upsertMeta(st, schema) ==
    LET s1   == Issue(st, {})
        kept == SelectSeq(st.db.column_meta, LAMBDA r : r.table_name # schema.Name)
        new  == [i \in DOMAIN schema.Fields |-> MetaRow(schema.Name, schema.Fields[i], i - 1)]
    IN  [s1 EXCEPT !.db.table_meta =
                        Put(@, schema.Name, [display_name |-> schema.DisplayName,
                                             description  |-> schema.Description]),
                   !.db.column_meta = kept \o new]

\* The catalog as the open transaction of upsertMeta sees it after its
\* first n statements: 1 the table_meta upsert, 2 the DELETE of the table's
\* column_meta rows, 2 + i the INSERT of field i.
UpsertWrites(db, schema, n) ==
    LET kept == SelectSeq(db.column_meta, LAMBDA r : r.table_name # schema.Name)
        new  == [i \in 1..(IF n - 2 > 0 THEN n - 2 ELSE 0) |->
                    MetaRow(schema.Name, schema.Fields[i], i - 1)]
    IN  [db EXCEPT
            !.table_meta = IF n >= 1
                           THEN Put(@, schema.Name, [display_name |-> schema.DisplayName,
                                                     description  |-> schema.Description])
                           ELSE @,
            !.column_meta = IF n >= 2 THEN kept \o new ELSE @]

\* upsertMeta whose failing statement returns without the transaction
\* being rolled back: what was written before the failure stays.
upsertMetaFault_NoRollback(st, schema, failAt) ==
    IF failAt = 0 THEN upsertMeta(st, schema)
    ELSE Fail([Issue(st, {}) EXCEPT
                  !.db = UpsertWrites(st.db, schema,
                            IF failAt - 1 < Len(schema.Fields) + 2 THEN failAt - 1
                            ELSE Len(schema.Fields) + 2)],
              "StorageFailure")

\* upsertMeta when the engine fails its failAt-th statement (the one after
\* the last INSERT is the COMMIT; 0: none fails).  On a failure the function
\* returns and the deferred tx.Rollback() discards what the transaction
\* wrote (UpsertWrites up to the failure): the database is the one the call
\* began with.
upsertMetaFault(st, schema, failAt) ==
    IF failAt = 0 THEN upsertMeta(st, schema)
    ELSE Fail([Issue(st, {}) EXCEPT !.db = st.db], "StorageFailure")

(***************************************************************************)
(* Table Migration Engine.                                                 *)
(***************************************************************************)
ColDef(f) ==
    [ident |-> f.Name, sqlType |-> mapType(f.TypeHint),
     notnull |-> ~f.AllowNull, dflt |-> f.Default]

CreateTable(db, schema) ==
    LET st == Begin(db) IN
    IF schema.Name = "" THEN Fail(st, "table name required")
    ELSE IF Len(schema.Fields) = 0 THEN Fail(st, "fields required")
    ELSE IF \E i \in DOMAIN schema.Fields : mapType(schema.Fields[i].TypeHint) = ""
    THEN Fail(st, "unsupported type")
    ELSE LET s1 == ExecCreateTable(st, schema.Name,
                        [i \in DOMAIN schema.Fields |-> ColDef(schema.Fields[i])])
         IN  IF s1.err # Ok THEN s1 ELSE upsertMeta(s1, schema)

\* The ALTER TABLE ... ADD COLUMN loop of AddColumns, from field i on.
RECURSIVE AddColumnsLoop(_, _, _, _)
AddColumnsLoop(st, table, fields, i) ==
    IF i > Len(fields) THEN st
    ELSE LET s1 == ExecAddColumn(st, table, ColDef(fields[i]))
         IN  IF s1.err # Ok THEN s1 ELSE AddColumnsLoop(s1, table, fields, i + 1)

MaxOrder(rows) ==
    IF rows = <<>> THEN 0
    ELSE CHOOSE m \in {rows[i].display_order : i \in DOMAIN rows} :
            \A i \in DOMAIN rows : rows[i].display_order <= m

AddColumnsFrom(st, table, fields) ==
    LET s1 == AddColumnsLoop(st, table, fields, 1) IN
    IF s1.err # Ok THEN s1
    ELSE LET order == MaxOrder(MetaRowsOf(s1.db, table))
             new   == [i \in DOMAIN fields |-> MetaRow(table, fields[i], order + (i - 1) + 1)]
         IN  [Issue(s1, {}) EXCEPT !.db.column_meta = @ \o new]

AddColumns(db, table, fields) == AddColumnsFrom(Begin(db), table, fields)

MaxId(rows) ==
    IF rows = <<>> THEN 0
    ELSE CHOOSE m \in {rows[i].id : i \in DOMAIN rows} : \A i \in DOMAIN rows : rows[i].id <= m

\* The rebuild transaction of DropColumns: CREATE tmp (keep... TEXT),
\* INSERT INTO tmp SELECT, DROP TABLE, ALTER TABLE tmp RENAME TO table.
Rebuild(tbl, keep) ==
    [cols |-> [i \in DOMAIN keep |->
                  [name |-> keep[i], aff |-> "TEXT", notnull |-> FALSE, dflt |-> ""]],
     rows |-> [i \in DOMAIN tbl.rows |->
                  [tbl.rows[i] EXCEPT !.vals =
                      [c \in Range(keep) |-> ApplyAffinity("TEXT", tbl.rows[i].vals[c])]]],
     seq  |-> MaxId(tbl.rows),
     tsDefault |-> FALSE]

DropColumnsFrom(st, table, columns) ==
    IF columns = {} THEN st
    ELSE LET current == PragmaTableInfo(st.db, table)
             keep    == SelectSeq(current, LAMBDA c : c \notin columns)
         IN  IF Len(keep) = Len(current) THEN st
             ELSE LET s1 == WithPhys(Issue(st, {table} \cup Range(keep)),
                                     [st.db.phys EXCEPT ![table] = Rebuild(@, keep)])
                  IN  [s1 EXCEPT !.db.column_meta =
                          SelectSeq(@, LAMBDA r : ~(r.table_name = table /\ r.column_name \in columns))]

DropColumns(db, table, columns) == DropColumnsFrom(Begin(db), table, columns)

DropTable(db, table) ==
    LET s1 == ExecDropTable(Begin(db), table) IN
    IF s1.err # Ok THEN s1
    ELSE [s1 EXCEPT !.db.table_meta = Del(@, table),
                    !.db.column_meta = SelectSeq(@, LAMBDA r : r.table_name # table)]

\* The duplicate / empty-name validation loop of UpdateTable, from field i on.
RECURSIVE ValidateNames(_, _, _)
ValidateNames(fields, i, nameSeen) ==
    IF i > Len(fields) THEN Ok
    ELSE LET name == TrimSpace(fields[i].Name) IN
         IF name = "" THEN "EmptyFieldName"
         ELSE IF name \in nameSeen THEN "DuplicateField"
         ELSE ValidateNames(fields, i + 1, nameSeen \cup {name})

\* existingMap[name]: the last catalog field of that name.
ExistingDef(existingFields, name) ==
    existingFields[CHOOSE i \in DOMAIN existingFields :
                      /\ existingFields[i].Name = name
                      /\ \A j \in DOMAIN existingFields :
                            existingFields[j].Name = name => j <= i]

\* The reconciliation loop of UpdateTable, from field i on.
RECURSIVE Reconcile(_, _, _, _)
Reconcile(fields, existingFields, i, acc) ==
    IF i > Len(fields) THEN acc
    ELSE LET f       == fields[i]
             newName == TrimSpace(f.Name)
             oldName == IF TrimSpace(f.OldName) = "" THEN newName ELSE TrimSpace(f.OldName)
         IN  IF \E k \in DOMAIN existingFields : existingFields[k].Name = oldName
             THEN LET exist == ExistingDef(existingFields, oldName) IN
                  IF f.TypeHint # "" /\ ~EqualFold(f.TypeHint, exist.TypeHint)
                  THEN [acc EXCEPT !.err = "TypeChangeForbidden"]
                  ELSE Reconcile(fields, existingFields, i + 1,
                        [acc EXCEPT
                           !.renamePairs = IF oldName # newName
                                           THEN Append(@, <<oldName, newName>>) ELSE @,
                           !.finalFields = Append(@, Field(newName, "", f.Labels,
                                                           exist.TypeHint, f.AllowNull, "")),
                           !.keepOld = @ \cup {oldName}])
             ELSE IF newName = "" \/ f.TypeHint = ""
                  THEN [acc EXCEPT !.err = "NewFieldTypeRequired"]
                  ELSE Reconcile(fields, existingFields, i + 1,
                        [acc EXCEPT
                           !.addFields = Append(@, Field(newName, "", f.Labels, f.TypeHint,
                                                         f.AllowNull, f.Default)),
                           !.finalFields = Append(@, Field(newName, "", f.Labels,
                                                           f.TypeHint, f.AllowNull, ""))])

\* The table rename step: ALTER TABLE ... RENAME TO, then both catalog
\* relations are repointed (table_name is the primary key of table_meta).
RenameTableStep(st, table, targetName) ==
    LET s1 == ExecRenameTable(st, table, targetName) IN
    IF s1.err # Ok THEN s1
    ELSE IF table \in DOMAIN s1.db.table_meta /\ targetName \in DOMAIN s1.db.table_meta
    THEN Fail(s1, "UNIQUE constraint failed")
    ELSE [s1 EXCEPT
            !.db.table_meta = IF table \in DOMAIN @
                              THEN Del(Put(@, targetName, @[table]), table) ELSE @,
            !.db.column_meta = [i \in DOMAIN @ |->
                                  IF @[i].table_name = table
                                  THEN [@[i] EXCEPT !.table_name = targetName] ELSE @[i]]]

\* The ALTER TABLE ... RENAME COLUMN loop, from pair i on.
RECURSIVE RenameLoop(_, _, _, _)
RenameLoop(st, table, pairs, i) ==
    IF i > Len(pairs) THEN st
    ELSE LET s1 == ExecRenameColumn(st, table, pairs[i][1], pairs[i][2])
         IN  IF s1.err # Ok THEN s1 ELSE RenameLoop(s1, table, pairs, i + 1)

\* Everything UpdateTable does once validation and reconciliation passed.
ApplyUpdate(st, table, targetName, schema, plan, dropFields) ==
    LET s1 == IF targetName # table THEN RenameTableStep(st, table, targetName) ELSE st
        s2 == IF s1.err # Ok THEN s1 ELSE RenameLoop(s1, targetName, plan.renamePairs, 1)
        s3 == IF s2.err # Ok \/ dropFields = {} THEN s2
              ELSE DropColumnsFrom(s2, targetName, dropFields)
        s4 == IF s3.err # Ok \/ plan.addFields = <<>> THEN s3
              ELSE AddColumnsFrom(s3, targetName, plan.addFields)
    IN  IF s4.err # Ok THEN s4
        ELSE upsertMeta(s4, [Name        |-> targetName,
                             DisplayName |-> schema.DisplayName,
                             Description |-> schema.Description,
                             Fields      |-> plan.finalFields])

\* UpdateTable with the surviving-field check made after the changes were
\* applied instead of before them.
UpdateTable_LateEmptyCheck(db, table, schema) ==
    LET st             == Begin(db)
        targetName     == IF schema.Name = "" THEN table ELSE schema.Name
        existingFields == listColumns(db, table)
        valid          == ValidateNames(schema.Fields, 1, {})
        plan           == Reconcile(schema.Fields, existingFields, 1,
                              [err |-> Ok, renamePairs |-> <<>>, addFields |-> <<>>,
                               keepOld |-> {}, finalFields |-> <<>>])
        dropFields     == {existingFields[i].Name : i \in DOMAIN existingFields} \ plan.keepOld
        done           == ApplyUpdate(st, table, targetName, schema, plan, dropFields)
    IN  IF valid # Ok THEN Fail(st, valid)
        ELSE IF plan.err # Ok THEN Fail(st, plan.err)
        ELSE IF done.err = Ok /\ plan.finalFields = <<>> THEN Fail(done, "EmptyFieldSet")
        ELSE done

\* UpdateTable with keepOld ignored when the fields to drop are computed:
\* every existing field is scheduled for drop.
UpdateTable_DropsKept(db, table, schema) ==
    LET st             == Begin(db)
        targetName     == IF schema.Name = "" THEN table ELSE schema.Name
        existingFields == listColumns(db, table)
        valid          == ValidateNames(schema.Fields, 1, {})
        plan           == Reconcile(schema.Fields, existingFields, 1,
                              [err |-> Ok, renamePairs |-> <<>>, addFields |-> <<>>,
                               keepOld |-> {}, finalFields |-> <<>>])
        dropFields     == {existingFields[i].Name : i \in DOMAIN existingFields}
    IN  IF valid # Ok THEN Fail(st, valid)
        ELSE IF plan.err # Ok THEN Fail(st, plan.err)
        ELSE IF plan.finalFields = <<>> THEN Fail(st, "EmptyFieldSet")
        ELSE ApplyUpdate(st, table, targetName, schema, plan, dropFields)

UpdateTable(db, table, schema) ==
    LET st             == Begin(db)
        targetName     == IF schema.Name = "" THEN table ELSE schema.Name
        existingFields == listColumns(db, table)
        valid          == ValidateNames(schema.Fields, 1, {})
        plan           == Reconcile(schema.Fields, existingFields, 1,
                              [err |-> Ok, renamePairs |-> <<>>, addFields |-> <<>>,
                               keepOld |-> {}, finalFields |-> <<>>])
        dropFields     == {existingFields[i].Name : i \in DOMAIN existingFields} \ plan.keepOld
    IN  IF valid # Ok THEN Fail(st, valid)
        ELSE IF plan.err # Ok THEN Fail(st, plan.err)
        ELSE IF plan.finalFields = <<>> THEN Fail(st, "EmptyFieldSet")
        ELSE ApplyUpdate(st, table, targetName, schema, plan, dropFields)

(***************************************************************************)
(* Row Access Engine.                                                      *)
(***************************************************************************)
SqlTime(sec) == [sql |-> "timestamp", sec |-> sec]

\* tableColumns: PRAGMA table_info minus id, created_at, updated_at.
tableColumns(db, table) ==
    SelectSeq(PragmaTableInfo(db, table), LAMBDA c : c \notin Housekeeping)

\* metaMap of prepareData: catalog field name -> the last field of that name.
MetaMap(db, table) ==
    LET defs == listColumns(db, table)
    IN  [n \in {defs[i].Name : i \in DOMAIN defs} |-> ExistingDef(defs, n)]

\* PrepareColumn without the allow_null test on a value that converted to
\* nil: the column is skipped whether required or not.
PrepareColumn_NilSkipped(data, def, isInsert) ==
    IF def.Name \notin DOMAIN data
    THEN IF isInsert /\ ~def.AllowNull
         THEN [do |-> "MissingRequiredField"] ELSE [do |-> "skip"]
    ELSE LET c == convertValue(def.TypeHint, data[def.Name]) IN
         IF c.err THEN [do |-> "InvalidValue"]
         ELSE IF c.val = GoNil THEN [do |-> "skip"]
              ELSE [do |-> "set", val |-> c.val]

\* What one iteration of prepareDataWithMeta's loop does for column `name`:
\* "skip", an error, or "set" with the converted value.
PrepareColumn(data, def, isInsert) ==
    IF def.Name \notin DOMAIN data
    THEN IF isInsert /\ ~def.AllowNull
         THEN [do |-> "MissingRequiredField"] ELSE [do |-> "skip"]
    ELSE LET c == convertValue(def.TypeHint, data[def.Name]) IN
         IF c.err THEN [do |-> "InvalidValue"]
         ELSE IF c.val = GoNil
              THEN IF ~def.AllowNull THEN [do |-> "MissingRequiredField"] ELSE [do |-> "skip"]
              ELSE [do |-> "set", val |-> c.val]

\* prepareDataWithMeta.  The loop ranges over a Go map, whose iteration
\* order is unspecified: when several columns fail, any of their errors may
\* be the one returned.  errs is the set of errors the call can return
\* (empty when it succeeds), clean the cleaned row of a successful call.
prepareDataWithMeta(data, meta, isInsert) ==
    LET out == [n \in DOMAIN meta |-> PrepareColumn(data, meta[n], isInsert)]
        set == {n \in DOMAIN meta : out[n].do = "set"}
    IN  [errs  |-> {out[n].do : n \in DOMAIN meta} \ {"skip", "set"},
         clean |-> [n \in set |-> out[n].val]]

prepareData(db, table, data, isInsert) ==
    prepareDataWithMeta(data, MetaMap(db, table), isInsert)

\* delete(data, "id"); delete(data, "created_at"); delete(data, "updated_at")
StripHousekeeping(data) == [k \in (DOMAIN data) \ Housekeeping |-> data[k]]

\* INSERT INTO table (keys) VALUES (?,...) with the cleaned row bound.
ExecInsert(st, table, clean, clock) ==
    LET keys == DOMAIN clean
        s1   == Issue(st, {table} \cup keys)
        tbl  == st.db.phys[table]
        vals == [c \in ColNames(tbl) |->
                    LET col == tbl.cols[CHOOSE i \in DOMAIN tbl.cols : tbl.cols[i].name = c]
                    IN  IF c \in keys THEN ApplyAffinity(col.aff, Bind(clean[c]))
                        ELSE ColumnDefault(col)]
        ts   == IF tbl.tsDefault THEN SqlTime(clock) ELSE SqlNull
    IN  IF keys = {} \/ ~ValidIdent(table) \/ \E k \in keys : ~ValidIdent(k)
        THEN Fail(s1, "syntax error")
        ELSE IF table \notin DOMAIN st.db.phys THEN Fail(s1, "no such table")
        ELSE IF \E k \in keys : k \notin ColNames(tbl) THEN Fail(s1, "no such column")
        ELSE IF \E i \in DOMAIN tbl.cols : tbl.cols[i].notnull /\ vals[tbl.cols[i].name] = SqlNull
        THEN Fail(s1, "NOT NULL constraint failed")
        ELSE WithPhys(s1, [st.db.phys EXCEPT ![table] =
                [@ EXCEPT !.rows = Append(@, [id |-> tbl.seq + 1, vals |-> vals,
                                              created_at |-> ts, updated_at |-> ts]),
                          !.seq = tbl.seq + 1]])

\* InsertRow once prepareData has produced its outcome: prepErr is the error
\* prepareData returned (Ok when it returned the cleaned row).
InsertRow(db, table, data, prepErr, clock) ==
    LET st == Begin(db)
        p  == prepareData(db, table, StripHousekeeping(data), TRUE)
    IN  IF prepErr # Ok THEN Fail(st, prepErr)
        ELSE ExecInsert(st, table, p.clean, clock)

\* The UPDATE of UpdateRow without its updated_at=CURRENT_TIMESTAMP term.
ExecUpdate_TimestampKept(st, table, id, clean, clock) ==
    LET keys == DOMAIN clean
        s1   == Issue(st, {table} \cup keys)
        tbl  == st.db.phys[table]
        aff(c) == tbl.cols[CHOOSE i \in DOMAIN tbl.cols : tbl.cols[i].name = c].aff
    IN  IF keys = {} \/ ~ValidIdent(table) \/ \E k \in keys : ~ValidIdent(k)
        THEN Fail(s1, "syntax error")
        ELSE IF table \notin DOMAIN st.db.phys THEN Fail(s1, "no such table")
        ELSE IF \E k \in keys : k \notin ColNames(tbl) THEN Fail(s1, "no such column")
        ELSE WithPhys(s1, [st.db.phys EXCEPT ![table].rows =
                [i \in DOMAIN @ |->
                    IF @[i].id # id THEN @[i]
                    ELSE [@[i] EXCEPT
                            !.vals = [c \in DOMAIN @ |->
                                        IF c \in keys THEN ApplyAffinity(aff(c), Bind(clean[c]))
                                        ELSE @[c]]]]])

\* UPDATE table SET k=?,...,updated_at=CURRENT_TIMESTAMP WHERE id=? with the
\* cleaned patch bound: every row of that id takes the values and the
\* current time (none when no row has the id).
ExecUpdate(st, table, id, clean, clock) ==
    LET keys == DOMAIN clean
        s1   == Issue(st, {table} \cup keys)
        tbl  == st.db.phys[table]
        aff(c) == tbl.cols[CHOOSE i \in DOMAIN tbl.cols : tbl.cols[i].name = c].aff
    IN  IF ~ValidIdent(table) \/ \E k \in keys : ~ValidIdent(k)
        THEN Fail(s1, "syntax error")
        ELSE IF table \notin DOMAIN st.db.phys THEN Fail(s1, "no such table")
        ELSE IF \E k \in keys : k \notin ColNames(tbl) THEN Fail(s1, "no such column")
        ELSE WithPhys(s1, [st.db.phys EXCEPT ![table].rows =
                [i \in DOMAIN @ |->
                    IF @[i].id # id THEN @[i]
                    ELSE [@[i] EXCEPT
                            !.vals = [c \in DOMAIN @ |->
                                        IF c \in keys THEN ApplyAffinity(aff(c), Bind(clean[c]))
                                        ELSE @[c]],
                            !.updated_at = SqlTime(clock)]]])

\* UpdateRow once prepareData has produced its outcome (prepErr as for
\* InsertRow).  A patch with no key besides id, created_at and updated_at
\* returns nil before anything is read or written.
UpdateRow(db, table, id, data, prepErr, clock) ==
    LET st == Begin(db)
        p  == prepareData(db, table, StripHousekeeping(data), FALSE)
    IN  IF DOMAIN StripHousekeeping(data) = {} THEN st
        ELSE IF prepErr # Ok THEN Fail(st, prepErr)
        ELSE ExecUpdate(st, table, id, p.clean, clock)

\* The errors prepareData can return for this call ({Ok} when it succeeds).
PrepareOutcomes(db, table, data, isInsert) ==
    LET p == prepareData(db, table, StripHousekeeping(data), isInsert)
    IN  IF p.errs = {} THEN {Ok} ELSE p.errs

DefaultPageSize == 20

\* The text a LIKE comparison sees for a stored value.
LikeText(v) ==
    CASE v.sql = "text"    -> v.str
      [] v.sql = "integer" -> ToString(v.i)
      [] v.sql = "real"    -> RealText(v.f10)
      [] OTHER             -> ""

\* strings.Contains on the strings of the model (hay contains needle).
Contains(hay, needle) ==
    \/ needle = ""
    \/ hay = needle
    \/ <<hay, needle>> \in {<<"xy", "x">>, <<"xy", "y">>, <<"7.0", "7">>, <<"7.0", "0">>,
                            <<"2.5", "2">>, <<"2.5", "5">>, <<"-3", "3">>, <<"1.0", "1">>,
                            <<"1.0", "0">>, <<"0.0", "0">>, <<"integer", "int">>}

\* column LIKE '%term%' (case-insensitive on ASCII; NULL never matches).
Like(v, term) == v.sql # "null" /\ Contains(ToLower(LikeText(v)), ToLower(term))

\* The bound parameter "%" + v + "%".
Pattern(v) == [like |-> v]

\* buildFilters with the slices.Contains test on the filter keys left out.
buildFilters_KeysUnchecked(opts, columns) ==
    LET search  == IF opts.Search # "" THEN Range(columns) ELSE {}
        filters == opts.Filters
    IN  [search  |-> search,
         term    |-> opts.Search,
         filters |-> filters,
         idents  |-> search \cup DOMAIN filters,
         params  |-> {Pattern(opts.Search) : c \in search}
                        \cup {Pattern(filters[k]) : k \in DOMAIN filters}]

\* buildFilters: the columns of the search OR-chain and the AND-ed filters
\* whose key is a known column, each with its bound parameter; idents are
\* the column names written into the clause text ("<col> LIKE ?"), params
\* the values bound to its placeholders.
buildFilters(opts, columns) ==
    LET search  == IF opts.Search # "" THEN Range(columns) ELSE {}
        filters == [k \in (DOMAIN opts.Filters) \cap Range(columns) |-> opts.Filters[k]]
    IN  [search  |-> search,
         term    |-> opts.Search,
         filters |-> filters,
         idents  |-> search \cup DOMAIN filters,
         params  |-> {Pattern(opts.Search) : c \in search}
                        \cup {Pattern(filters[k]) : k \in DOMAIN filters}]

Matches(row, where) ==
    /\ where.search = {} \/ \E c \in where.search : Like(row.vals[c], where.term)
    /\ \A k \in DOMAIN where.filters : Like(row.vals[k], where.filters[k])

\* Sort order of stored values: NULL, then numbers, then text.
TextRank(str) ==
    CASE str = ""  -> 0
      [] str = "0" -> 1
      [] str = "1" -> 2
      [] str = "7" -> 3
      [] str = "x" -> 4
      [] str = "xy" -> 5
      [] str = "y" -> 6
      [] OTHER     -> 7

OrderKey(v) ==
    CASE v.sql = "null"    -> 0
      [] v.sql = "integer" -> 1000 + 10 * v.i
      [] v.sql = "real"    -> 1000 + v.f10
      [] v.sql = "text"    -> 5000 + TextRank(v.str)
      [] OTHER             -> 9000

\* Keyed rows [key, row] ordered by ascending key; rows of equal key stay
\* in stored order.
RECURSIVE OrderRows(_)
OrderRows(items) ==
    IF items = <<>> THEN <<>>
    ELSE LET least == CHOOSE i \in DOMAIN items :
                        \A j \in DOMAIN items :
                            items[i].key < items[j].key \/ (items[i].key = items[j].key /\ i <= j)
             rest  == [k \in 1..(Len(items) - 1) |-> IF k < least THEN items[k] ELSE items[k + 1]]
         IN  <<items[least].row>> \o OrderRows(rest)

\* Query with the offset computed as page * page_size.
Query_OffsetFromPage(db, table, opts) ==
    LET page     == IF opts.Page < 1 THEN 1 ELSE opts.Page
        pageSize == IF opts.PageSize <= 0 THEN DefaultPageSize ELSE opts.PageSize
        columns  == tableColumns(db, table)
        where    == buildFilters(opts, columns)
        matched  == SelectSeq(db.phys[table].rows, LAMBDA r : Matches(r, where))
        offset   == page * pageSize
        ordered  ==
            IF opts.SortBy # "" /\ opts.SortBy \in Range(columns)
            THEN OrderRows([i \in DOMAIN matched |->
                    [key |-> IF opts.Desc THEN 0 - OrderKey(matched[i].vals[opts.SortBy])
                                          ELSE OrderKey(matched[i].vals[opts.SortBy]),
                     row |-> matched[i]]])
            ELSE OrderRows([i \in DOMAIN matched |-> [key |-> 0 - matched[i].id,
                                                      row |-> matched[i]]])
        last     == IF offset + pageSize < Len(ordered) THEN offset + pageSize ELSE Len(ordered)
    IN  IF table \notin DOMAIN db.phys
        THEN [err |-> "no such table", rows |-> <<>>, total |-> 0]
        ELSE [err   |-> Ok,
              rows  |-> [i \in 1..(IF last > offset THEN last - offset ELSE 0) |->
                            [id |-> ordered[offset + i].id, vals |-> ordered[offset + i].vals]],
              total |-> Len(matched)]

\* Query: [err, rows, total]; a returned row is its id and the declared
\* physical columns (created_at and updated_at are left out).
Query(db, table, opts) ==
    LET page     == IF opts.Page < 1 THEN 1 ELSE opts.Page
        pageSize == IF opts.PageSize <= 0 THEN DefaultPageSize ELSE opts.PageSize
        columns  == tableColumns(db, table)
        where    == buildFilters(opts, columns)
        matched  == SelectSeq(db.phys[table].rows, LAMBDA r : Matches(r, where))
        offset   == (page - 1) * pageSize
        ordered  ==
            IF opts.SortBy # "" /\ opts.SortBy \in Range(columns)
            THEN OrderRows([i \in DOMAIN matched |->
                    [key |-> IF opts.Desc THEN 0 - OrderKey(matched[i].vals[opts.SortBy])
                                          ELSE OrderKey(matched[i].vals[opts.SortBy]),
                     row |-> matched[i]]])
            ELSE OrderRows([i \in DOMAIN matched |-> [key |-> 0 - matched[i].id,
                                                      row |-> matched[i]]])
        last     == IF offset + pageSize < Len(ordered) THEN offset + pageSize ELSE Len(ordered)
    IN  IF table \notin DOMAIN db.phys
        THEN [err |-> "no such table", rows |-> <<>>, total |-> 0]
        ELSE [err   |-> Ok,
              rows  |-> [i \in 1..(IF last > offset THEN last - offset ELSE 0) |->
                            [id |-> ordered[offset + i].id, vals |-> ordered[offset + i].vals]],
              total |-> Len(matched)]

NoOptions == [Search |-> "", Filters |-> EmptyFn, Page |-> 0, PageSize |-> 0,
              SortBy |-> "", Desc |-> FALSE]

(***************************************************************************)
(* Import Reconciler.                                                      *)
(*                                                                         *)
(* The header and the records are what encoding/csv hands back: with       *)
(* TrimLeadingSpace no cell starts with white space, and every record has  *)
(* the header's number of fields or the read fails.                        *)
(***************************************************************************)
\* columnMeta: column name -> label list, the last catalog row of a name
\* winning.
columnMeta(db, table) ==
    LET rows == MetaRowsOf(db, table)
        last(n) == CHOOSE i \in DOMAIN rows :
                      /\ rows[i].column_name = n
                      /\ \A j \in DOMAIN rows : rows[j].column_name = n => j <= i
    IN  [n \in {rows[i].column_name : i \in DOMAIN rows} |->
            UnmarshalLabels(rows[last(n)].labels)]

\* The columns one of whose labels is the header, lower-cased.
LabelMatches(lower, meta) ==
    {col \in DOMAIN meta : \E j \in DOMAIN meta[col] : ToLower(meta[col][j]) = lower}

\* The first physical column equal to the header under case folding.
NameMatches(h, fields) == {i \in DOMAIN fields : EqualFold(fields[i], h)}

FirstOf(S) == CHOOSE i \in S : \A j \in S : i <= j

\* resolveColumn with the two loops in the other order: a label match is
\* taken before a physical column name.
resolveColumn_LabelsFirst(header, fields, meta) ==
    LET h == TrimSpace(header)
        lower == ToLower(h)
    IN  IF LabelMatches(lower, meta) # {} THEN LabelMatches(lower, meta)
        ELSE IF NameMatches(h, fields) # {} THEN {fields[FirstOf(NameMatches(h, fields))]}
        ELSE {""}

\* resolveColumn: the set of columns the call can return.  The label loop
\* ranges over a Go map, so when several columns declare the label any of
\* them may be returned.
resolveColumn(header, fields, meta) ==
    LET h == TrimSpace(header)
        lower == ToLower(h)
    IN  IF NameMatches(h, fields) # {} THEN {fields[FirstOf(NameMatches(h, fields))]}
        ELSE IF LabelMatches(lower, meta) # {} THEN LabelMatches(lower, meta)
        ELSE {""}

\* aliasMap[ToLower(TrimSpace(k))] = TrimSpace(v): the maps the loop over
\* the caller's aliases can build (keys that normalize alike overwrite each
\* other in map order).
AliasKey(k) == ToLower(TrimSpace(k))

AliasMaps(aliases) ==
    LET keys == {AliasKey(k) : k \in DOMAIN aliases}
        targets(n) == {TrimSpace(aliases[k]) : k \in {x \in DOMAIN aliases : AliasKey(x) = n}}
    IN  {m \in [keys -> {TrimSpace(aliases[k]) : k \in DOMAIN aliases}] :
            \A n \in keys : m[n] \in targets(n)}

\* The headers appended to `unknown`, in header order.
RECURSIVE UnknownHeaders(_, _, _, _)
UnknownHeaders(header, aliasMap, mapping, i) ==
    IF i > Len(header) THEN <<>>
    ELSE LET h == TrimSpace(header[i])
             rest == UnknownHeaders(header, aliasMap, mapping, i + 1)
         IN  IF ToLower(h) \notin DOMAIN aliasMap /\ mapping[i] = ""
             THEN <<h>> \o rest ELSE rest

\* buildImportContext: the set of results the call can return, each
\* [err, mapping, metaMap, unknown].
buildImportContext(db, table, header, aliases, allowUnknown) ==
    LET schemaFields == tableColumns(db, table)
        metaMap == MetaMap(db, table)
        meta == columnMeta(db, table)
        cands(aliasMap, i) ==
            LET h == TrimSpace(header[i]) IN
            IF ToLower(h) \in DOMAIN aliasMap THEN {aliasMap[ToLower(h)]}
            ELSE resolveColumn(h, schemaFields, meta)
        all(aliasMap) == UNION {cands(aliasMap, i) : i \in DOMAIN header}
        result(aliasMap, mapping) ==
            LET unknown == IF allowUnknown THEN <<>>
                           ELSE UnknownHeaders(header, aliasMap, mapping, 1)
            IN  IF unknown # <<>>
                THEN [err |-> "UnknownColumns", mapping |-> <<>>, metaMap |-> EmptyFn,
                      unknown |-> unknown]
                ELSE [err |-> Ok, mapping |-> mapping, metaMap |-> metaMap,
                      unknown |-> <<>>]
    IN  IF Len(header) = 0
        THEN {[err |-> "header is empty", mapping |-> <<>>, metaMap |-> EmptyFn,
               unknown |-> <<>>]}
        ELSE UNION {{result(aliasMap, mapping) :
                        mapping \in {m \in [DOMAIN header -> all(aliasMap)] :
                                        \A i \in DOMAIN header : m[i] \in cands(aliasMap, i)}} :
                    aliasMap \in AliasMaps(aliases)}

\* The row importRecord builds: position i of the record under column
\* mapping[i], a later position overwriting an earlier one of the same
\* column.
ImportRow(mapping, record) ==
    LET idx == {i \in DOMAIN mapping : i <= Len(record) /\ mapping[i] # ""}
        lastAt(c) == CHOOSE i \in idx : mapping[i] = c /\ \A j \in idx : mapping[j] = c => j <= i
    IN  [c \in {mapping[i] : i \in idx} |-> GoString(record[lastAt(c)])]

\* importRecord: the set of results the call can have, each the outcome of
\* the validation with the import's metaMap or of the InsertRow that
\* follows it.
importRecord(db, table, mapping, metaMap, record, clock) ==
    LET p == prepareDataWithMeta(ImportRow(mapping, record), metaMap, TRUE)
    IN  IF p.errs # {} THEN {Fail(Begin(db), e) : e \in p.errs}
        ELSE {InsertRow(db, table, p.clean, prepErr, clock) :
                 prepErr \in PrepareOutcomes(db, table, p.clean, TRUE)}

isEmptyRow(cells) == \A i \in DOMAIN cells : TrimSpace(cells[i]) = ""

\* The read loop of ImportCSV from record i on: the set of results, each
\* [db, err, inserted, idents, wrote].
RECURSIVE ImportLoop(_, _, _, _, _, _, _)
ImportLoop(st, table, ctx, fieldsPerRecord, records, i, clock) ==
    IF i > Len(records) THEN {st}
    ELSE IF Len(records[i]) # fieldsPerRecord
    THEN {Fail(st, "wrong number of fields")}
    ELSE IF Len(records[i]) = 0 \/ isEmptyRow(records[i])
    THEN ImportLoop(st, table, ctx, fieldsPerRecord, records, i + 1, clock)
    ELSE UNION {
            LET after == [db |-> r.db, err |-> r.err, inserted |-> st.inserted,
                          idents |-> st.idents \cup r.idents,
                          wrote |-> st.wrote \/ r.wrote]
            IN  IF r.err # Ok THEN {after}
                ELSE ImportLoop([after EXCEPT !.inserted = @ + 1], table, ctx,
                                fieldsPerRecord, records, i + 1, clock) :
            r \in importRecord(st.db, table, ctx.mapping, ctx.metaMap, records[i], clock)}

\* ImportCSV run as one transaction: a failure on a row undoes the rows
\* inserted before it, the count still telling how many there were.
ImportCSV_AllOrNothing(db, table, header, records, allowUnknown, aliases, clock) ==
    LET start == [db |-> db, err |-> Ok, inserted |-> 0, idents |-> {table}, wrote |-> FALSE]
    IN  UNION {
            IF ctx.err # Ok
            THEN {[start EXCEPT !.err = ctx.err] @@ [unknown |-> ctx.unknown]}
            ELSE {(IF r.err # Ok THEN [r EXCEPT !.db = db] ELSE r) @@ [unknown |-> <<>>] :
                    r \in ImportLoop(start, table, ctx, Len(header), records, 1, clock)} :
            ctx \in buildImportContext(db, table, header, aliases, allowUnknown)}

\* ImportCSV: the set of results, each [db, err, inserted, idents, wrote,
\* unknown] (unknown: the Columns of an UnknownColumnsError).
ImportCSV(db, table, header, records, allowUnknown, aliases, clock) ==
    LET start == [db |-> db, err |-> Ok, inserted |-> 0, idents |-> {table}, wrote |-> FALSE]
    IN  UNION {
            IF ctx.err # Ok
            THEN {[start EXCEPT !.err = ctx.err] @@ [unknown |-> ctx.unknown]}
            ELSE {r @@ [unknown |-> <<>>] :
                    r \in ImportLoop(start, table, ctx, Len(header), records, 1, clock)} :
            ctx \in buildImportContext(db, table, header, aliases, allowUnknown)}

(***************************************************************************)
(* Summary.  Numbers are exact, in tenths like every float64 of the model: *)
(* a quotient is kept as [num, den], and std as the quotient whose square  *)
(* root it is.                                                             *)
(***************************************************************************)
\* rows.Scan into sql.NullFloat64: NULL is not valid, a number converts,
\* text converts when strconv.ParseFloat accepts it and fails the scan
\* otherwise.
ScanNullFloat(v) ==
    CASE v.sql = "null"    -> [valid |-> FALSE, err |-> FALSE, f10 |-> 0]
      [] v.sql = "integer" -> [valid |-> TRUE, err |-> FALSE, f10 |-> 10 * v.i]
      [] v.sql = "real"    -> [valid |-> TRUE, err |-> FALSE, f10 |-> v.f10]
      [] v.sql = "text"    ->
            IF v.str \in FloatLiterals
            THEN [valid |-> TRUE, err |-> FALSE, f10 |-> ParseFloat(v.str)]
            ELSE [valid |-> FALSE, err |-> TRUE, f10 |-> 0]
      [] OTHER             -> [valid |-> FALSE, err |-> TRUE, f10 |-> 0]

\* The type hint Summary finds for the column: that of the first catalog
\* field of the name, lower-cased; "" when there is none.
SummaryHint(db, table, column) ==
    LET cols == listColumns(db, table)
        hits == {i \in DOMAIN cols : cols[i].Name = column}
    IN  IF hits = {} THEN ""
        ELSE ToLower(cols[CHOOSE i \in hits : \A j \in hits : i <= j].TypeHint)

\* The test Summary makes on the hint.
SummaryNumeric(typeHint) ==
    \/ Contains(typeHint, "int")
    \/ Contains(typeHint, "shuzhi")
    \/ Contains(typeHint, "number")
    \/ Contains(typeHint, "float")

RECURSIVE SumSeq(_)
SumSeq(nums) == IF nums = <<>> THEN 0 ELSE Head(nums) + SumSeq(Tail(nums))

\* nums with every NULL appended as 0 instead of being left out.
SummaryNums_NullAsZero(scanned) == [i \in DOMAIN scanned |-> scanned[i].f10]

\* nums: the valid scanned values, in row order.
SummaryNums(scanned) ==
    LET valid == SelectSeq(scanned, LAMBDA x : x.valid)
    IN  [i \in DOMAIN valid |-> valid[i].f10]

\* The statistics of a non-empty nums.
SummaryStats(nums) ==
    LET n   == Len(nums)
        sum == SumSeq(nums)
        max == CHOOSE x \in Range(nums) : \A y \in Range(nums) : y <= x
        min == CHOOSE x \in Range(nums) : \A y \in Range(nums) : x <= y
        \* x - avg = (n * x - sum) / n, squared and summed, then divided by n
        dev == SumSeq([i \in DOMAIN nums |-> (n * nums[i] - sum) * (n * nums[i] - sum)])
    IN  [count   |-> n,
         sum     |-> sum,
         average |-> [num |-> sum, den |-> n],
         max     |-> max,
         min     |-> min,
         std     |-> [num |-> dev, den |-> n * n * n]]

\* Summary: [db, err, idents, wrote, result].
Summary(db, table, column) ==
    LET st       == Begin(db)
        typeHint == SummaryHint(db, table, column)
        s1       == [st EXCEPT !.idents = {table, column}]
        rows     == db.phys[table].rows
        scanned  == [i \in DOMAIN rows |-> ScanNullFloat(rows[i].vals[column])]
        nums     == SummaryNums(scanned)
        none     == [count |-> 0]
        fail(s, e) == Fail(s, e) @@ [result |-> none]
    IN  IF typeHint = "" THEN fail(st, "NoSuchColumn")
        ELSE IF ~SummaryNumeric(typeHint) THEN fail(st, "UnsupportedColumnType")
        ELSE IF ~ValidIdent(table) \/ ~ValidIdent(column) THEN fail(s1, "syntax error")
        ELSE IF table \notin DOMAIN db.phys THEN fail(s1, "no such table")
        ELSE IF column \notin ColNames(db.phys[table]) THEN fail(s1, "no such column")
        ELSE IF \E i \in DOMAIN scanned : scanned[i].err THEN fail(s1, "scan error")
        ELSE IF Len(nums) = 0 THEN s1 @@ [result |-> none]
        ELSE s1 @@ [result |-> SummaryStats(nums)]

(***************************************************************************)
(* The state machine: one action per exported operation of Storage.        *)
(***************************************************************************)
DB == [phys |-> phys, table_meta |-> table_meta, column_meta |-> column_meta]

SchemaOps == {"CreateTable", "AddColumns", "DropColumns", "DropTable", "UpdateTable"}

\* The schema names the table itself and lists exactly the fields the
\* catalog lists for it, in the catalog's order.
SameSchema(table, schema) ==
    LET listed == listColumns(DB, table) IN
    /\ table \in DOMAIN table_meta
    /\ schema.Name = table
    /\ Len(schema.Fields) = Len(listed)
    /\ \A i \in DOMAIN listed :
          /\ schema.Fields[i].Name = listed[i].Name
          /\ schema.Fields[i].OldName = ""
          /\ schema.Fields[i].Labels = listed[i].Labels
          /\ schema.Fields[i].TypeHint = listed[i].TypeHint
          /\ schema.Fields[i].AllowNull = listed[i].AllowNull

\* The call returns: its effects on the database become the state, and
\* lastOp records the call (with whether the catalog held the table when it
\* was made, and whether an UpdateTable was handed the catalog's own schema)
\* and its result.
Return(op, table, arg, r) ==
    /\ phys' = r.db.phys
    /\ table_meta' = r.db.table_meta
    /\ column_meta' = r.db.column_meta
    /\ lastOp' = [op |-> op, table |-> table, arg |-> arg, err |-> r.err,
                  idents |-> r.idents, wrote |-> r.wrote,
                  managed |-> table \in DOMAIN table_meta,
                  same |-> op = "UpdateTable" /\ SameSchema(table, arg)]
    /\ \A i \in DOMAIN r.db.column_meta :
          r.db.column_meta[i].display_order <= MaxDisplayOrder
    /\ allOk' = (allOk /\ (op \in SchemaOps => r.err = Ok))
    /\ UNCHANGED now

\* Open: the two catalog relations exist and are empty.
Init ==
    /\ phys = EmptyFn
    /\ table_meta = EmptyFn
    /\ column_meta = <<>>
    /\ now = 0
    /\ lastOp = [op |-> "Open", table |-> "", arg |-> <<>>, err |-> Ok,
                 idents |-> {}, wrote |-> FALSE, managed |-> FALSE, same |-> FALSE]
    /\ allOk = TRUE

DoCreateTable(schema) ==
    Return("CreateTable", schema.Name, schema, CreateTable(DB, schema))

DoAddColumns(table, fields) ==
    Return("AddColumns", table, fields, AddColumns(DB, table, fields))

DoDropColumns(table, columns) ==
    Return("DropColumns", table, columns, DropColumns(DB, table, columns))

DoDropTable(table) ==
    Return("DropTable", table, <<>>, DropTable(DB, table))

DoUpdateTable(table, schema) ==
    Return("UpdateTable", table, schema, UpdateTable(DB, table, schema))

\* InsertRow, tried while the table holds fewer than limit rows.
DoInsertRowUpTo(table, data, limit) ==
    /\ table \in DOMAIN phys => Len(phys[table].rows) < limit
    /\ \E prepErr \in PrepareOutcomes(DB, table, data, TRUE) :
          Return("InsertRow", table, data, InsertRow(DB, table, data, prepErr, now))

DoInsertRow(table, data) == DoInsertRowUpTo(table, data, MaxRows)

(***************************************************************************)
(* The operations, over the inputs a specification draws them from.        *)
(***************************************************************************)
Schema(name, fields) ==
    [Name |-> name, DisplayName |-> "D", Description |-> "", Fields |-> fields]

CreateTableOp(names, fields) ==
    \E name \in names, fs \in SeqsUpTo(fields, MaxFields) : DoCreateTable(Schema(name, fs))

AddColumnsOp(tables, fields) ==
    \E table \in tables, fs \in SeqsUpTo(fields, MaxFields) : DoAddColumns(table, fs)

DropColumnsOp(tables, names) ==
    \E table \in tables, columns \in SUBSET names : DoDropColumns(table, columns)

DropTableOp(tables) == \E table \in tables : DoDropTable(table)

UpdateTableOp(tables, names, fields) ==
    \E table \in tables, name \in names, fs \in SeqsUpTo(fields, MaxFields) :
        DoUpdateTable(table, Schema(name, fs))

InsertRowOp(tables, payloads) ==
    \E table \in tables, data \in payloads : DoInsertRow(table, data)

(***************************************************************************)
(* Spec: the schema operations on one table name.                          *)
(***************************************************************************)
FieldA  == Field("a", "", <<"A">>, "text", TRUE, "")
FieldB  == Field("b", "", <<>>, "integer", FALSE, "0")
FieldBx == Field("b", "", <<>>, "color", TRUE, "")
RenameAB == Field("b", "a", <<>>, "", TRUE, "")

DeclaredFields == {FieldA, FieldB, FieldBx}
UpdateFields == DeclaredFields \cup {RenameAB}
DropNames == {"a", "b"}

Next ==
    \/ CreateTableOp({"t", ""}, DeclaredFields)
    \/ AddColumnsOp({"t"}, DeclaredFields)
    \/ DropColumnsOp({"t"}, DropNames)
    \/ DropTableOp({"t"})
    \/ UpdateTableOp({"t"}, {"", "t"}, UpdateFields)

Spec == Init /\ [][Next]_vars

(***************************************************************************)
(* Properties of the schema operations.                                    *)
(***************************************************************************)
CatalogNames(table) ==
    {listColumns(DB, table)[i].Name : i \in DOMAIN listColumns(DB, table)}

PhysicalNames(table) == Range(tableColumns(DB, table))

\* C1: after schema calls that all returned nil, every table of the catalog
\* has exactly its physical columns (id, created_at, updated_at aside) as
\* its catalog columns.
C1_CatalogEqualsPhysical ==
    allOk => \A table \in DOMAIN table_meta : CatalogNames(table) = PhysicalNames(table)

\* C2: after schema calls that all returned nil, every table ListTables
\* returns has a non-empty field list with pairwise distinct names.
C2_FieldsNonEmptyDistinct ==
    allOk => \A table \in DOMAIN ListTables(DB) :
                LET fields == ListTables(DB)[table].Fields IN
                /\ fields # <<>>
                /\ \A i, j \in DOMAIN fields : i # j => fields[i].Name # fields[j].Name

\* C4: no catalog column carries a type hint mapType does not recognize.
C4_CatalogHintsRecognized ==
    \A i \in DOMAIN column_meta : mapType(column_meta[i].type_hint) # ""

\* A created table as ListTables returns it right after the call.
Listed == ListTables(DB)[lastOp.table]

FreshCreate == lastOp.op = "CreateTable" /\ lastOp.err = Ok /\ ~lastOp.managed

\* C6 as claimed: CreateTable on a name not yet managed, then ListTables,
\* returns the schema's name and its fields in order, equal in name,
\* labels, type_hint, allow_null and default.
C6_RoundTripWithDefault ==
    FreshCreate =>
        /\ lastOp.table \in DOMAIN ListTables(DB)
        /\ Listed.Name = lastOp.arg.Name
        /\ Len(Listed.Fields) = Len(lastOp.arg.Fields)
        /\ \A i \in DOMAIN lastOp.arg.Fields :
              /\ Listed.Fields[i].Name = lastOp.arg.Fields[i].Name
              /\ Listed.Fields[i].Labels = lastOp.arg.Fields[i].Labels
              /\ Listed.Fields[i].TypeHint = lastOp.arg.Fields[i].TypeHint
              /\ Listed.Fields[i].AllowNull = lastOp.arg.Fields[i].AllowNull
              /\ Listed.Fields[i].Default = lastOp.arg.Fields[i].Default

\* C6 amended: the listed fields equal the schema's in order, name, labels,
\* type_hint and allow_null; the default is not kept by the catalog and
\* comes back empty.
C6_RoundTrip ==
    FreshCreate =>
        /\ lastOp.table \in DOMAIN ListTables(DB)
        /\ Listed.Name = lastOp.arg.Name
        /\ Len(Listed.Fields) = Len(lastOp.arg.Fields)
        /\ \A i \in DOMAIN lastOp.arg.Fields :
              /\ Listed.Fields[i].Name = lastOp.arg.Fields[i].Name
              /\ Listed.Fields[i].Labels = lastOp.arg.Fields[i].Labels
              /\ Listed.Fields[i].TypeHint = lastOp.arg.Fields[i].TypeHint
              /\ Listed.Fields[i].AllowNull = lastOp.arg.Fields[i].AllowNull
              /\ Listed.Fields[i].Default = ""

\* C6 witness: a fresh two-field create whose second field declares labels
\* on the first and a default on the second.
C6_Witness ==
    /\ FreshCreate
    /\ Len(lastOp.arg.Fields) = 2
    /\ lastOp.arg.Fields[1].Labels # <<>>
    /\ lastOp.arg.Fields[2].Default # ""

(***************************************************************************)
(* SpecIdent: the schema operations handed names outside the identifier    *)
(* alphabet.                                                               *)
(***************************************************************************)
FieldAB == Field("a b", "", <<>>, "text", TRUE, "")
RenameToAB == Field("a b", "a", <<>>, "", TRUE, "")

IdentFields == {FieldA, FieldAB}

NextIdent ==
    \/ CreateTableOp({"t", "t u"}, IdentFields)
    \/ AddColumnsOp({"t", "t u"}, IdentFields \cup {FieldB})
    \/ DropColumnsOp({"t"}, DropNames)
    \/ DropTableOp({"t"})
    \/ UpdateTableOp({"t"}, {"", "t u"}, IdentFields \cup {RenameToAB})

SpecIdent == Init /\ [][NextIdent]_vars

CallFields == IF lastOp.op = "AddColumns" THEN lastOp.arg ELSE lastOp.arg.Fields

\* The table and field names a schema call was handed.
CallNames ==
    ({lastOp.table}
        \cup (IF lastOp.op = "AddColumns" THEN {} ELSE {lastOp.arg.Name})
        \cup {CallFields[i].Name : i \in DOMAIN CallFields}) \ {""}

\* C3: CreateTable, AddColumns and UpdateTable fail when handed a table or
\* field name that is not a valid identifier, and interpolate no such name
\* into a statement.
C3_InvalidNamesRejected ==
    lastOp.op \in {"CreateTable", "AddColumns", "UpdateTable"} =>
        /\ (\E n \in CallNames : ~ValidIdent(n)) => lastOp.err # Ok
        /\ \A n \in lastOp.idents : ValidIdent(n)

(***************************************************************************)
(* SpecRows: one table with a required and a nullable integer column,      *)
(* schema changes on it, and inserts.                                      *)
(***************************************************************************)
ReqA   == Field("a", "", <<>>, "integer", FALSE, "")
OptA   == Field("a", "", <<>>, "", TRUE, "")
TextA  == Field("a", "", <<>>, "text", TRUE, "")
OptB   == Field("b", "", <<"B">>, "integer", TRUE, "")
NoName == Field(" ", "", <<>>, "text", TRUE, "")

RowFields == {ReqA, OptB}
RowUpdateFields == {ReqA, OptA, TextA, OptB, NoName}

\* Payloads: a is left out, blank, or 7.0; b is left out, null, not a
\* number, or "1".
Payloads ==
    {[k \in ks |-> IF k = "a" THEN va ELSE vb] :
        ks \in SUBSET {"a", "b"},
        va \in {GoString(" "), GoFloat(70)},
        vb \in {GoNil, GoString("x"), GoString("1")}}

NextRows ==
    \/ CreateTableOp({"t"}, RowFields)
    \/ DropColumnsOp({"t"}, DropNames)
    \/ UpdateTableOp({"t"}, {"t"}, RowUpdateFields)
    \/ InsertRowOp({"t"}, Payloads)

SpecRows == Init /\ [][NextRows]_vars

(***************************************************************************)
(* Properties of UpdateTable, DropColumns and InsertRow.                   *)
(***************************************************************************)
UpdateRejections ==
    {"EmptyFieldName", "DuplicateField", "TypeChangeForbidden", "EmptyFieldSet"}

\* C5: an UpdateTable that returns EmptyFieldName, DuplicateField,
\* TypeChangeForbidden or EmptyFieldSet has issued no statement, and the
\* physical tables, their rows and both catalog relations are as before.
C5_RejectedUpdateChangesNothing ==
    [][(lastOp'.op = "UpdateTable" /\ lastOp'.err \in UpdateRejections) =>
            /\ ~lastOp'.wrote
            /\ lastOp'.idents = {}
            /\ phys' = phys
            /\ table_meta' = table_meta
            /\ column_meta' = column_meta]_vars

\* C5 witness: an UpdateTable with no fields was rejected with EmptyFieldSet
\* on a table that has rows and two catalog fields.
C5_Witness ==
    /\ lastOp.op = "UpdateTable"
    /\ lastOp.err = "EmptyFieldSet"
    /\ lastOp.table \in DOMAIN phys
    /\ phys[lastOp.table].rows # <<>>
    /\ Len(listColumns(DB, lastOp.table)) = 2

\* C7: an UpdateTable handed the table's own name and the catalog's own
\* fields in order leaves the physical columns and the rows as they were,
\* and a second identical call changes nothing and returns the same.
C7_NoOpUpdateIdempotent ==
    [][lastOp'.same =>
            /\ phys' = phys
            /\ LET again == UpdateTable(DB', lastOp'.table, lastOp'.arg) IN
               /\ again.db = DB'
               /\ again.err = lastOp'.err]_vars

\* C7 witness: such an UpdateTable returned nil on a table with rows whose
\* column a is NOT NULL physically.
C7_Witness ==
    /\ lastOp.same
    /\ lastOp.err = Ok
    /\ phys[lastOp.table].rows # <<>>
    /\ \E i \in DOMAIN phys[lastOp.table].cols : phys[lastOp.table].cols[i].notnull

\* C8: after a DropColumns that returned nil and dropped a physical column
\* of a table, Query returns as many rows as before, with the same ids, no
\* dropped column, and the same value in every surviving column.
C8_DropKeepsSurvivingValues ==
    [][(/\ lastOp'.op = "DropColumns"
        /\ lastOp'.err = Ok
        /\ lastOp'.arg \cap PhysicalNames(lastOp'.table) # {}) =>
            LET before == Query(DB, lastOp'.table, NoOptions)
                after  == Query(DB', lastOp'.table, NoOptions)
            IN  /\ after.err = Ok
                /\ after.total = before.total
                /\ Len(after.rows) = Len(before.rows)
                /\ \A i \in DOMAIN after.rows :
                      /\ after.rows[i].id = before.rows[i].id
                      /\ DOMAIN after.rows[i].vals = (DOMAIN before.rows[i].vals) \ lastOp'.arg
                      /\ \A c \in DOMAIN after.rows[i].vals :
                            after.rows[i].vals[c] = before.rows[i].vals[c]]_vars

\* The payload leaves the field out or gives it a value that converts to nil.
Lacking(def, data) ==
    \/ def.Name \notin DOMAIN data
    \/ convertValue(def.TypeHint, data[def.Name]) = Converted(GoNil)

\* The call is an InsertRow whose payload lacks a field the catalog holds
\* with allow_null = false.
RequiredLacking(call) ==
    /\ call.op = "InsertRow"
    /\ LET meta == MetaMap(DB, call.table)
           data == StripHousekeeping(call.arg)
       IN  \E n \in DOMAIN meta : ~meta[n].AllowNull /\ Lacking(meta[n], data)

\* The payload gives some catalog field a value its type hint refuses.
SomeInvalid(call) ==
    LET meta == MetaMap(DB, call.table)
        data == StripHousekeeping(call.arg)
    IN  \E n \in DOMAIN meta :
            n \in DOMAIN data /\ convertValue(meta[n].TypeHint, data[n]).err

\* C9 as claimed: an InsertRow whose payload lacks a required field fails
\* with MissingRequiredField before any INSERT, the rows unchanged.
C9_RequiredFailsAsMissing ==
    [][RequiredLacking(lastOp') =>
            /\ lastOp'.err = "MissingRequiredField"
            /\ ~lastOp'.wrote
            /\ phys' = phys]_vars

\* C9 amended: such an InsertRow fails before any INSERT, the rows
\* unchanged, with MissingRequiredField, or with InvalidValue when the
\* payload also gives another field a value its type hint refuses.
C9_RequiredFailsBeforeInsert ==
    [][RequiredLacking(lastOp') =>
            /\ lastOp'.err \in {"MissingRequiredField", "InvalidValue"}
            /\ lastOp'.err = "InvalidValue" => SomeInvalid(lastOp')
            /\ ~lastOp'.wrote
            /\ lastOp'.idents = {}
            /\ phys' = phys]_vars

\* C9 witness: an InsertRow giving the required field a blank value and the
\* other field a valid one was refused on a table that has a row (InsertRow
\* leaves the catalog as it was when the call was made).
C9_Witness ==
    /\ RequiredLacking(lastOp)
    /\ lastOp.err = "MissingRequiredField"
    /\ DOMAIN lastOp.arg = {"a", "b"}
    /\ ~SomeInvalid(lastOp)
    /\ phys[lastOp.table].rows # <<>>

\* C10: no InsertRow is refused by the engine's NOT NULL constraint for a
\* field the catalog holds with allow_null = true and the payload lacks: a
\* null is refused by validation only.
C10_NullableAccepted ==
    ~(/\ lastOp.op = "InsertRow"
      /\ lastOp.err = "NOT NULL constraint failed"
      /\ \E n \in DOMAIN MetaMap(DB, lastOp.table) :
            /\ MetaMap(DB, lastOp.table)[n].AllowNull
            /\ Lacking(MetaMap(DB, lastOp.table)[n], StripHousekeeping(lastOp.arg))
            /\ \E i \in DOMAIN phys[lastOp.table].cols :
                  /\ phys[lastOp.table].cols[i].name = n
                  /\ phys[lastOp.table].cols[i].notnull
                  /\ phys[lastOp.table].cols[i].dflt = "")

(***************************************************************************)
(* SpecCoerce: convertValue applied to a type hint and a payload value.    *)
(***************************************************************************)
DoConvertValue(typeHint, val) ==
    /\ lastOp' = [op |-> "convertValue", table |-> "",
                  arg |-> [typeHint |-> typeHint, val |-> val],
                  err |-> IF convertValue(typeHint, val).err THEN "InvalidValue" ELSE Ok,
                  result |-> convertValue(typeHint, val).val,
                  idents |-> {}, wrote |-> FALSE, managed |-> FALSE, same |-> FALSE]
    /\ UNCHANGED <<phys, table_meta, column_meta, now, allOk>>

CoerceHints ==
    {"integer", "Integer", "int", "jishu", "buer", "number", "decimal",
     "boolean", "bool", "Bool", "shi/fou", "text", "date", "color"}

CoerceStrings ==
    {"", " ", "7", " 7 ", "-3", "2.5", "x", "true", "True", "YES", "yes", "1",
     "0", "no", "No", "false", "shi", "fou", "maybe"}

CoerceValues ==
    {GoNil, GoInt(7), GoFloat(25), GoFloat(70), GoBool(TRUE), GoBool(FALSE)}
        \cup {GoString(str) : str \in CoerceStrings}

NextCoerce == \E typeHint \in CoerceHints, val \in CoerceValues : DoConvertValue(typeHint, val)

SpecCoerce == Init /\ [][NextCoerce]_vars

\* The hints of convertValue's integer branch and of mapType's boolean row.
IntegerCategory == {"integer", "int", "jishu", "buer"}
BooleanCategory == {"boolean", "bool", "shi/fou"}

\* The value is in integer form (a Go integer or a number with no
\* fractional part) or is a string that trims to a base-10 integer.
IntegerInput(val) ==
    \/ val.go = "int64"
    \/ val.go = "float64" /\ val.f10 % 10 = 0
    \/ val.go = "string" /\ TrimSpace(val.str) \in IntLiterals

NullInput(val) == val = GoNil \/ (val.go = "string" /\ TrimSpace(val.str) = "")

\* C11: under an integer hint, a non-null, non-empty input converts to an
\* integer exactly when it is in integer form or is a string that parses
\* as a base-10 integer; every other such input fails with InvalidValue.
C11_IntegerCoercionExact ==
    (/\ lastOp.op = "convertValue"
     /\ ToLower(lastOp.arg.typeHint) \in IntegerCategory
     /\ ~NullInput(lastOp.arg.val)) =>
        IF IntegerInput(lastOp.arg.val)
        THEN lastOp.err = Ok /\ lastOp.result.go = "int64"
        ELSE lastOp.err = "InvalidValue"

\* C12: under every hint of mapType's boolean category, a native boolean is
\* kept, true/1/shi/yes give true and false/0/fou/no give false whatever
\* the case, an empty string gives null, and any other string fails.
C12_BooleanCoercion ==
    (/\ lastOp.op = "convertValue"
     /\ ToLower(lastOp.arg.typeHint) \in BooleanCategory
     /\ mapType(lastOp.arg.typeHint) = "INTEGER"
     /\ lastOp.arg.val.go \in {"bool", "string"}) =>
        LET val == lastOp.arg.val
            t   == ToLower(TrimSpace(val.str))
        IN  CASE val.go = "bool" -> lastOp.err = Ok /\ lastOp.result = val
              [] t = "" -> lastOp.err = Ok /\ lastOp.result = GoNil
              [] t \in {"true", "1", "shi", "yes"} ->
                    lastOp.err = Ok /\ lastOp.result = GoBool(TRUE)
              [] t \in {"false", "0", "fou", "no"} ->
                    lastOp.err = Ok /\ lastOp.result = GoBool(FALSE)
              [] OTHER -> lastOp.err = "InvalidValue"

(***************************************************************************)
(* SpecFilters: buildFilters applied to query options and a column list.   *)
(***************************************************************************)
DoBuildFilters(opts, columns) ==
    /\ lastOp' = [op |-> "buildFilters", table |-> "",
                  arg |-> [opts |-> opts, columns |-> columns],
                  err |-> Ok,
                  result |-> buildFilters(opts, columns),
                  idents |-> buildFilters(opts, columns).idents,
                  wrote |-> FALSE, managed |-> FALSE, same |-> FALSE]
    /\ UNCHANGED <<phys, table_meta, column_meta, now, allOk>>

FilterKeys == {"a", "b", "zz"}
FilterValues == {"x", "a"}

FilterMaps ==
    UNION {[ks -> FilterValues] : ks \in SUBSET FilterKeys}

NextFilters ==
    \E search \in {"", "x", "b"}, filters \in FilterMaps,
       columns \in SeqsUpTo({"a", "b"}, MaxFields) :
        DoBuildFilters([NoOptions EXCEPT !.Search = search, !.Filters = filters], columns)

SpecFilters == Init /\ [][NextFilters]_vars

\* C13: every column name in the clause buildFilters returns is a known
\* column (a search column or a filter key); filter keys that are not known
\* columns are left out without an error; the search term and the filter
\* values are bound parameters only.
C13_ClauseColumnsKnown ==
    lastOp.op = "buildFilters" =>
        LET opts    == lastOp.arg.opts
            known   == Range(lastOp.arg.columns)
            where   == lastOp.result
        IN  /\ lastOp.err = Ok
            /\ where.idents \subseteq known
            /\ where.idents \subseteq
                  (DOMAIN opts.Filters) \cup (IF opts.Search # "" THEN known ELSE {})
            /\ \A k \in DOMAIN opts.Filters : k \in where.idents <=> k \in known
            /\ where.params \subseteq
                  {Pattern(opts.Search)} \cup {Pattern(opts.Filters[k]) : k \in DOMAIN opts.Filters}
            /\ \A k \in (DOMAIN opts.Filters) \cap known : Pattern(opts.Filters[k]) \in where.params

\* C13 witness: a search term, one filter key that is a known column and one
\* that is not, and a filter value that spells a column name.
C13_Witness ==
    /\ lastOp.op = "buildFilters"
    /\ lastOp.arg.opts.Search = "b"
    /\ lastOp.arg.columns = <<"a", "b">>
    /\ DOMAIN lastOp.arg.opts.Filters = {"a", "zz"}
    /\ lastOp.arg.opts.Filters["zz"] = "a"
    /\ lastOp.result.idents = {"a", "b"}

(***************************************************************************)
(* SpecQuery: a table with a text and an integer column, inserts, and      *)
(* paged, filtered, sorted queries.                                        *)
(***************************************************************************)
DoQuery(table, opts) ==
    /\ LET q == Query(DB, table, opts) IN
       lastOp' = [op |-> "Query", table |-> table, arg |-> opts,
                  err |-> q.err, result |-> q,
                  idents |-> {table} \cup buildFilters(opts, tableColumns(DB, table)).idents,
                  wrote |-> FALSE, managed |-> table \in DOMAIN table_meta, same |-> FALSE]
    /\ UNCHANGED <<phys, table_meta, column_meta, now, allOk>>

QueryOp(tables, options) == \E table \in tables, opts \in options : DoQuery(table, opts)

QueryPayloads ==
    {[a |-> GoString("x")], [a |-> GoString("xy"), b |-> GoString("7")],
     [b |-> GoString("7")], [b |-> GoString("1")],
     [a |-> GoString("x"), b |-> GoString("1")]}

MaxQueryRows == 3
MaxPage == 3

QueryOptionSet ==
    {[Search |-> search, Filters |-> filters, Page |-> page, PageSize |-> pageSize,
      SortBy |-> sortBy, Desc |-> desc] :
        search \in {"", "y"}, filters \in {EmptyFn, [b |-> "7"]},
        page \in 1..MaxPage, pageSize \in 1..2, sortBy \in {"", "b"}, desc \in BOOLEAN}

NextQuery ==
    \/ DoCreateTable(Schema("t", <<FieldA, OptB>>))
    \/ \E data \in QueryPayloads : DoInsertRowUpTo("t", data, MaxQueryRows)
    \/ QueryOp({"t"}, QueryOptionSet)

SpecQuery == Init /\ [][NextQuery]_vars

\* The rows are in the order the options ask for: by the sort column when
\* it is a known column (ascending or descending), else by id descending.
InSortOrder(rows, opts, columns) ==
    \A i, j \in DOMAIN rows : i < j =>
        IF opts.SortBy # "" /\ opts.SortBy \in Range(columns)
        THEN IF opts.Desc
             THEN OrderKey(rows[i].vals[opts.SortBy]) >= OrderKey(rows[j].vals[opts.SortBy])
             ELSE OrderKey(rows[i].vals[opts.SortBy]) <= OrderKey(rows[j].vals[opts.SortBy])
        ELSE rows[i].id > rows[j].id

\* The elements first+1 .. first+count of a sequence, as far as it reaches.
Slice(seq, first, count) ==
    [i \in 1..(IF first >= Len(seq) THEN 0
               ELSE IF first + count > Len(seq) THEN Len(seq) - first ELSE count) |->
        seq[first + i]]

\* C14: for page p >= 1 and page size s >= 1 a successful Query returns the
\* rows at positions (p-1)*s+1 .. p*s of the rows that match the filter,
\* taken in the active sort order, and its total is the number of matching
\* rows whatever p and s are.
C14_PageIsSliceOfSortedMatches ==
    (lastOp.op = "Query" /\ lastOp.err = Ok /\ lastOp.arg.Page >= 1 /\ lastOp.arg.PageSize >= 1) =>
        LET opts     == lastOp.arg
            stored   == phys[lastOp.table].rows
            columns  == tableColumns(DB, lastOp.table)
            where    == buildFilters(opts, columns)
            matching == {i \in DOMAIN stored : Matches(stored[i], where)}
            all      == Query(DB, lastOp.table,
                              [opts EXCEPT !.Page = 1, !.PageSize = Len(stored) + 1]).rows
        IN  /\ lastOp.result.total = Cardinality(matching)
            /\ Len(all) = Cardinality(matching)
            /\ {all[i].id : i \in DOMAIN all} = {stored[i].id : i \in matching}
            /\ InSortOrder(all, opts, columns)
            /\ lastOp.result.rows = Slice(all, (opts.Page - 1) * opts.PageSize, opts.PageSize)

\* C14 witness: page 2 of size 1, sorted by b descending and filtered on b,
\* of three stored rows of which two match: one row comes back, total 2.
C14_Witness ==
    /\ lastOp.op = "Query"
    /\ lastOp.err = Ok
    /\ lastOp.arg.Page = 2
    /\ lastOp.arg.PageSize = 1
    /\ lastOp.arg.SortBy = "b"
    /\ lastOp.arg.Desc
    /\ lastOp.arg.Filters # EmptyFn
    /\ Len(phys[lastOp.table].rows) = 3
    /\ lastOp.result.total = 2
    /\ Len(lastOp.result.rows) = 1

(***************************************************************************)
(* SpecImport: a table with a text and an integer column whose labels      *)
(* overlap, header resolution against it, and CSV imports into it.         *)
(***************************************************************************)
DoBuildImportContext(table, header, aliases, allowUnknown) ==
    /\ \E ctx \in buildImportContext(DB, table, header, aliases, allowUnknown) :
          lastOp' = [op |-> "buildImportContext", table |-> table,
                     arg |-> [header |-> header, aliases |-> aliases,
                              allowUnknown |-> allowUnknown],
                     err |-> ctx.err, result |-> ctx,
                     idents |-> {table}, wrote |-> FALSE,
                     managed |-> table \in DOMAIN table_meta, same |-> FALSE]
    /\ UNCHANGED <<phys, table_meta, column_meta, now, allOk>>

\* ImportCSV, tried while the table holds fewer than limit rows.
DoImportCSVUpTo(table, header, records, allowUnknown, aliases, limit) ==
    /\ table \in DOMAIN phys => Len(phys[table].rows) < limit
    /\ \E r \in ImportCSV(DB, table, header, records, allowUnknown, aliases, now) :
          /\ phys' = r.db.phys
          /\ table_meta' = r.db.table_meta
          /\ column_meta' = r.db.column_meta
          /\ lastOp' = [op |-> "ImportCSV", table |-> table,
                        arg |-> [header |-> header, records |-> records,
                                 aliases |-> aliases, allowUnknown |-> allowUnknown],
                        err |-> r.err,
                        result |-> [inserted |-> r.inserted, unknown |-> r.unknown],
                        idents |-> r.idents, wrote |-> r.wrote,
                        managed |-> table \in DOMAIN table_meta, same |-> FALSE]
    /\ UNCHANGED <<now, allOk>>

MaxImportRows == 2   \* rows a table holds before ImportCSV is no longer tried

ImpA == Field("a", "", <<"Name">>, "text", TRUE, "")
ImpB == Field("b", "", <<"a", "Name">>, "integer", TRUE, "")

ImportHeaders ==
    {<<"a">>, <<"zz">>, <<"A ", "b">>, <<"Name", "zz">>, <<"zz", "b">>, <<"b", "B">>}

ImportAliases == {EmptyFn, [zz |-> ""], [zz |-> "ghost"], "A " :> "b"}

\* Record streams: of one-cell and of two-cell records, with blank
\* records, records an integer column refuses, and a short record.
ImportStreams ==
    {<<>>,
     <<<<"7">>>>,
     <<<<"">>, <<"7">>, <<"x">>>>,
     <<<<"x", "7">>>>,
     <<<<"", "">>, <<"x", "7">>, <<"7", "x">>, <<"x", "7">>>>,
     <<<<"x", "">>, <<"", "">>, <<"7">>>>}

NextImport ==
    \/ DoCreateTable(Schema("t", <<ImpA, ImpB>>))
    \/ \E header \in ImportHeaders \cup {<<>>}, aliases \in ImportAliases,
          allowUnknown \in BOOLEAN :
            DoBuildImportContext("t", header, aliases, allowUnknown)
    \/ \E header \in ImportHeaders, aliases \in ImportAliases, allowUnknown \in BOOLEAN,
          records \in ImportStreams :
            DoImportCSVUpTo("t", header, records, allowUnknown, aliases, MaxImportRows)

SpecImport == Init /\ [][NextImport]_vars

\* The columns a header can resolve to in the order alias mapping, physical
\* column name, declared label ("" when nothing matches).
Resolution(db, table, h, aliases) ==
    LET hits == {k \in DOMAIN aliases : AliasKey(k) = AliasKey(h)} IN
    IF hits # {} THEN {TrimSpace(aliases[k]) : k \in hits}
    ELSE resolveColumn(h, tableColumns(db, table), columnMeta(db, table))

\* The header resolves to no column of the table.
Unresolved(db, table, h, aliases) ==
    \A c \in Resolution(db, table, h, aliases) : c \notin Range(tableColumns(db, table))

\* The unresolved headers of a call, trimmed, in header order.
UnresolvedHeaders(db, call) ==
    LET header == call.arg.header
        idx == {i \in DOMAIN header : Unresolved(db, call.table, header[i], call.arg.aliases)}
        RECURSIVE from(_)
        from(i) == IF i > Len(header) THEN <<>>
                   ELSE IF i \in idx THEN <<TrimSpace(header[i])>> \o from(i + 1)
                   ELSE from(i + 1)
    IN  from(1)

\* C15: an ImportCSV call with allowUnknown false and a header that
\* resolves to no column returns UnknownColumns listing every unresolved
\* header, and inserts no row.
C15_UnknownHeadersRejected ==
    [][(/\ lastOp'.op = "ImportCSV"
        /\ ~lastOp'.arg.allowUnknown
        /\ UnresolvedHeaders(DB, lastOp') # <<>>)
       => /\ lastOp'.err = "UnknownColumns"
          /\ lastOp'.result.unknown = UnresolvedHeaders(DB, lastOp')
          /\ phys' = phys]_vars

\* C16: every header of an accepted header row, trimmed and compared
\* without regard to case, is mapped by the caller's alias mapping when
\* that has an entry for it; else to the physical column of that name when
\* there is one; else to a column that declares it as a label when there is
\* one; else to no column.
C16_ResolutionPriority ==
    (lastOp.op = "buildImportContext" /\ lastOp.err = Ok) =>
    LET header  == lastOp.arg.header
        aliases == lastOp.arg.aliases
        mapping == lastOp.result.mapping
        fields  == Range(tableColumns(DB, lastOp.table))
        listed  == listColumns(DB, lastOp.table)
    IN  \A i \in DOMAIN header :
          LET h == ToLower(TrimSpace(header[i]))
              byAlias == {k \in DOMAIN aliases : ToLower(TrimSpace(k)) = h}
              byName  == {f \in fields : ToLower(f) = h}
              byLabel == {listed[j].Name : j \in
                            {x \in DOMAIN listed :
                                \E l \in Range(listed[x].Labels) : ToLower(l) = h}}
          IN  IF byAlias # {} THEN mapping[i] \in {TrimSpace(aliases[k]) : k \in byAlias}
              ELSE IF byName # {} THEN mapping[i] \in byName
              ELSE IF byLabel # {} THEN mapping[i] \in byLabel
              ELSE mapping[i] = ""

\* A header that is both the name of one column and a label of another is
\* mapped to the column of that name; a header with an alias entry that is
\* also a column name is mapped to the alias target.
C16_Witness ==
    /\ lastOp.op = "buildImportContext"
    /\ lastOp.err = Ok
    /\ lastOp.arg.header = <<"A ", "b">>
    /\ \/ /\ lastOp.arg.aliases = EmptyFn
          /\ "b" \in LabelMatches("a", columnMeta(DB, lastOp.table))
          /\ lastOp.result.mapping = <<"a", "b">>
       \/ /\ lastOp.arg.aliases = "A " :> "b"
          /\ "a" \in Range(tableColumns(DB, lastOp.table))
          /\ lastOp.result.mapping = <<"b", "b">>

\* The records with a cell that is not empty after trimming.
NonBlank(records) ==
    SelectSeq(records, LAMBDA rec : \E i \in DOMAIN rec : TrimSpace(rec[i]) # "")

RowsOf(p, table) == IF table \in DOMAIN p THEN p[table].rows ELSE <<>>

DoSummary(table, column) ==
    /\ LET r == Summary(DB, table, column) IN
       lastOp' = [op |-> "Summary", table |-> table, arg |-> column,
                  err |-> r.err, result |-> r.result,
                  idents |-> r.idents, wrote |-> FALSE,
                  managed |-> table \in DOMAIN table_meta, same |-> FALSE]
    /\ UNCHANGED <<phys, table_meta, column_meta, now, allOk>>

MaxSummaryRows == 3   \* rows the table holds before InsertRow is no longer tried

SummaryHints ==
    {"integer", "Integer", "jishu", "buer", "number", "decimal", "shuzhi", "fudian",
     "text", "bool"}

\* Payloads: a is left out (the row holds NULL in a), a number, or not one.
SummaryPayloads ==
    {[b |-> GoString("x")], [a |-> GoString("1")], [a |-> GoString("7")],
     [a |-> GoString("2.5")], [a |-> GoString("x")]}

TextB == Field("b", "", <<>>, "text", TRUE, "")

\* One schema per hint: column a of that hint, and the text column b.
SummarySchemas ==
    {Schema("t", <<Field("a", "", <<>>, typeHint, TRUE, ""), TextB>>) :
        typeHint \in SummaryHints}

NextSummary ==
    \/ \E schema \in SummarySchemas : DoCreateTable(schema)
    \/ \E data \in SummaryPayloads : DoInsertRowUpTo("t", data, MaxSummaryRows)
    \/ \E column \in {"a", "b", "zz"} : DoSummary("t", column)

SpecSummary == Init /\ [][NextSummary]_vars

\* The hints mapType stores as REAL (number/decimal) or takes in its
\* integer/count row.
NumericCategory == {"number", "decimal", "shuzhi", "fudian"} \cup IntegerCategory

\* C18: Summary of a catalog column succeeds when the column's catalog type
\* hint is a numeric category, and fails with UnsupportedColumnType when it
\* is of any other category.
C18_SummaryNumericOnly ==
    (/\ lastOp.op = "Summary"
     /\ \E i \in DOMAIN column_meta :
           /\ column_meta[i].table_name = lastOp.table
           /\ column_meta[i].column_name = lastOp.arg)
    => LET row == CHOOSE r \in Range(column_meta) :
                     r.table_name = lastOp.table /\ r.column_name = lastOp.arg
       IN  IF ToLower(row.type_hint) \in NumericCategory
           THEN lastOp.err = Ok
           ELSE lastOp.err = "UnsupportedColumnType"

\* The non-null values the column holds, in tenths, in row order.
NonNullValues(table, column) ==
    LET held == SelectSeq([i \in DOMAIN phys[table].rows |-> phys[table].rows[i].vals[column]],
                          LAMBDA v : v.sql # "null")
    IN  [i \in DOMAIN held |->
            CASE held[i].sql = "integer" -> 10 * held[i].i
              [] held[i].sql = "real"    -> held[i].f10
              [] OTHER                   -> ParseFloat(held[i].str)]

\* C19: a successful Summary reports the count, sum, maximum and minimum of
\* exactly the non-null values of the column, their mean (sum / count) and
\* their population standard deviation (the root of the mean of the squares
\* less the square of the mean); over no non-null value it reports count 0
\* and nothing else.
C19_SummaryOfNonNull ==
    (lastOp.op = "Summary" /\ lastOp.err = Ok) =>
    LET x   == NonNullValues(lastOp.table, lastOp.arg)
        n   == Len(x)
        sum == SumSeq(x)
        sq  == SumSeq([i \in DOMAIN x |-> x[i] * x[i]])
        got == lastOp.result
    IN  IF n = 0 THEN DOMAIN got = {"count"} /\ got.count = 0
        ELSE /\ DOMAIN got = {"count", "sum", "average", "max", "min", "std"}
             /\ got.count = n
             /\ got.sum = sum
             /\ got.max \in Range(x) /\ \A i \in DOMAIN x : x[i] <= got.max
             /\ got.min \in Range(x) /\ \A i \in DOMAIN x : got.min <= x[i]
             /\ got.average.den > 0 /\ got.average.num * n = sum * got.average.den
             /\ got.std.den > 0
             /\ got.std.num * (n * n) = (n * sq - sum * sum) * got.std.den

\* Summary succeeded over three rows of which one holds NULL and the other
\* two hold different numbers.
C19_Witness ==
    /\ lastOp.op = "Summary"
    /\ lastOp.err = Ok
    /\ Len(phys[lastOp.table].rows) = 3
    /\ lastOp.result.count = 2
    /\ lastOp.result.max # lastOp.result.min
    /\ lastOp.result.std.num > 0

(***************************************************************************)
(* SpecUpdate: a table with a text and an integer column, inserts, a       *)
(* column drop (which rebuilds the table), row updates, and a clock.       *)
(***************************************************************************)
DoUpdateRow(table, id, data) ==
    \E prepErr \in PrepareOutcomes(DB, table, data, FALSE) :
        Return("UpdateRow", table, [id |-> id, data |-> data],
               UpdateRow(DB, table, id, data, prepErr, now))

MaxClock == 2        \* seconds the clock advances
MaxUpdateRows == 2   \* rows the table holds before InsertRow is no longer tried

\* A second passes.
Tick ==
    /\ now < MaxClock
    /\ now' = now + 1
    /\ UNCHANGED <<phys, table_meta, column_meta, lastOp, allOk>>

\* Patches: none, housekeeping keys only, a value, a null, a value the
\* integer column refuses, one it takes, and a key that is no column.
UpdatePatches ==
    {EmptyFn, [id |-> GoInt(1)], [a |-> GoString("y")], [a |-> GoNil],
     [b |-> GoString("x")], [b |-> GoString("7")], [zz |-> GoString("x")]}

\* Rows to insert: a alone, or a and b.
UpdateInserts == {[a |-> GoString("x")], [a |-> GoString("x"), b |-> GoString("1")]}

NextUpdate ==
    \/ DoCreateTable(Schema("t", <<FieldA, OptB>>))
    \/ DoDropColumns("t", {"b"})
    \/ \E data \in UpdateInserts : DoInsertRowUpTo("t", data, MaxUpdateRows)
    \/ \E id \in 1..(MaxUpdateRows + 1), data \in UpdatePatches : DoUpdateRow("t", id, data)
    \/ Tick

SpecUpdate == Init /\ [][NextUpdate]_vars

\* The step is an UpdateRow call (not the clock's) that returned success,
\* and a row of its id was in the table when it was made.
UpdatedExisting(call) ==
    /\ now' = now
    /\ call.op = "UpdateRow"
    /\ call.err = Ok
    /\ call.table \in DOMAIN phys
    /\ \E i \in DOMAIN phys[call.table].rows : phys[call.table].rows[i].id = call.arg.id

\* After the call every row of its id carries the time of the call in
\* updated_at.
Refreshed(call) ==
    /\ call.table \in DOMAIN phys'
    /\ \E i \in DOMAIN phys'[call.table].rows : phys'[call.table].rows[i].id = call.arg.id
    /\ \A i \in DOMAIN phys'[call.table].rows :
          phys'[call.table].rows[i].id = call.arg.id
              => phys'[call.table].rows[i].updated_at = SqlTime(now)

\* C20 as stated: every UpdateRow that returns success for an existing row
\* refreshes that row's updated_at.
C20_UpdateRefreshes ==
    [][UpdatedExisting(lastOp') => Refreshed(lastOp')]_vars

\* C20, for patches with a key besides id, created_at and updated_at: an
\* UpdateRow that returns success for an existing row sets that row's
\* updated_at to the current time.
C20_NonEmptyUpdateRefreshes ==
    [][(UpdatedExisting(lastOp') /\ DOMAIN lastOp'.arg.data \ Housekeeping # {})
       => Refreshed(lastOp')]_vars

\* A successful UpdateRow with a patch for column a, made after the clock
\* moved on from the insert, left the row with the new time in updated_at
\* and the old one in created_at.
C20_Witness ==
    /\ lastOp.op = "UpdateRow"
    /\ lastOp.err = Ok
    /\ "a" \in DOMAIN lastOp.arg.data
    /\ lastOp.table \in DOMAIN phys
    /\ \E i \in DOMAIN phys[lastOp.table].rows :
          /\ phys[lastOp.table].rows[i].id = lastOp.arg.id
          /\ phys[lastOp.table].rows[i].updated_at = SqlTime(now)
          /\ phys[lastOp.table].rows[i].created_at = SqlTime(0)
          /\ now > 0

\* C21: every row of every table carries a non-null created_at from the
\* step that inserted it on, and no step changes the created_at of a row
\* that stays in its table.
C21_CreatedAtSetOnce ==
    [][\A table \in DOMAIN phys' :
          \A i \in DOMAIN phys'[table].rows :
             LET row == phys'[table].rows[i] IN
             /\ row.created_at # SqlNull
             /\ table \in DOMAIN phys =>
                   \A j \in DOMAIN phys[table].rows :
                      phys[table].rows[j].id = row.id
                          => phys[table].rows[j].created_at = row.created_at]_vars

(***************************************************************************)
(* SpecKnown: a table declared and declared again with another field       *)
(* list, inserts, and queries that search and filter.                      *)
(***************************************************************************)
KnownOptionSet ==
    {[NoOptions EXCEPT !.Search = search, !.Filters = filters, !.SortBy = sortBy] :
        search \in {"", "x"}, filters \in {EmptyFn, [b |-> "7"], [a |-> "x"]},
        sortBy \in {"", "b"}}

\* Rows to insert: a alone, or a and b.
KnownInserts == {[a |-> GoString("x")], [a |-> GoString("x"), b |-> GoString("7")]}

NextKnown ==
    \/ CreateTableOp({"t"}, {FieldA, OptB})
    \/ \E data \in KnownInserts : DoInsertRow("t", data)
    \/ QueryOp({"t"}, KnownOptionSet)

SpecKnown == Init /\ [][NextKnown]_vars

\* C22: the columns a successful Query writes into its WHERE clause are the
\* catalog's columns of the table (all of them for a search, the filter
\* keys among them for filters), and the columns a successful InsertRow
\* writes are catalog columns.
C22_KnownColumnsAreCatalog ==
    LET catalog == {column_meta[i].column_name :
                       i \in {x \in DOMAIN column_meta : column_meta[x].table_name = lastOp.table}}
        used    == lastOp.idents \ {lastOp.table}
    IN  /\ (lastOp.op = "Query" /\ lastOp.err = Ok) =>
              used = (IF lastOp.arg.Search # "" THEN catalog ELSE {})
                        \cup (DOMAIN lastOp.arg.Filters \cap catalog)
        /\ (lastOp.op = "InsertRow" /\ lastOp.err = Ok) => used \subseteq catalog

(***************************************************************************)
(* SpecHeal: a two-column table, DropColumns cut short between the commit  *)
(* of its rebuild and its catalog cleanup, and UpdateTable.                *)
(***************************************************************************)
\* DropColumns up to and including tx.Commit of the rebuild: the DELETE
\* FROM column_meta that follows it is never run.
DropColumnsInterrupted(db, table, columns) ==
    LET st      == Begin(db)
        current == PragmaTableInfo(db, table)
        keep    == SelectSeq(current, LAMBDA c : c \notin columns)
    IN  WithPhys(Issue(st, {table} \cup Range(keep)),
                 [db.phys EXCEPT ![table] = Rebuild(@, keep)])

\* The process stops after the rebuild committed (there is a column to
\* drop, so the rebuild runs).
DoDropColumnsInterrupted(table, columns) ==
    /\ table \in DOMAIN phys
    /\ columns \cap ColNames(phys[table]) # {}
    /\ Return("DropColumnsInterrupted", table, columns,
              DropColumnsInterrupted(DB, table, columns))

NextHeal ==
    \/ DoCreateTable(Schema("t", <<FieldA, OptB>>))
    \/ \E columns \in SUBSET DropNames : DoDropColumnsInterrupted("t", columns)
    \/ UpdateTableOp({"t"}, {"t"}, {FieldA, OptB, RenameAB})

SpecHeal == Init /\ [][NextHeal]_vars

\* C23: when DropColumns was interrupted after its rebuild, leaving catalog
\* rows for columns the table no longer has, and the next call is an
\* UpdateTable that succeeds, the catalog's columns of the table are then
\* the table's physical columns.
C23_UpdateHealsStaleCatalog ==
    [][(/\ lastOp.op = "DropColumnsInterrupted"
        /\ CatalogNames(lastOp.table) # PhysicalNames(lastOp.table)
        /\ lastOp'.op = "UpdateTable"
        /\ lastOp'.err = Ok)
       => LET target == lastOp'.arg.Name IN
          /\ target \in DOMAIN phys'
          /\ {column_meta'[i].column_name :
                 i \in {x \in DOMAIN column_meta' : column_meta'[x].table_name = target}}
                = ColNames(phys'[target])]_vars

(***************************************************************************)
(* SpecCatalog: tables declared, and the catalog upsert run with the       *)
(* engine failing one of its statements.                                   *)
(***************************************************************************)
DoUpsertMeta(schema, failAt) ==
    /\ failAt <= Len(schema.Fields) + 3
    /\ Return("upsertMeta", schema.Name, [schema |-> schema, failAt |-> failAt],
              upsertMetaFault(Begin(DB), schema, failAt))

NextCatalog ==
    \/ CreateTableOp({"t"}, {FieldA, FieldB})
    \/ \E fs \in SeqsUpTo({FieldA, FieldB}, MaxFields), failAt \in 0..(MaxFields + 3),
          display \in {"D", "E"} :
            DoUpsertMeta([Schema("t", fs) EXCEPT !.DisplayName = display], failAt)

SpecCatalog == Init /\ [][NextCatalog]_vars

\* C24: an upsert of the catalog in which a statement (the table_meta
\* upsert, the column_meta delete, a column_meta insert, or the commit)
\* failed leaves table_meta and column_meta exactly as they were.
C24_FailedUpsertChangesNothing ==
    [][(lastOp'.op = "upsertMeta" /\ lastOp'.err # Ok)
       => table_meta' = table_meta /\ column_meta' = column_meta]_vars

\* The upsert of a table the catalog lists with columns failed at its
\* second column insert, after the table row, the delete and one insert
\* had been written with values that differ from the catalog's; the
\* catalog still holds the old ones.
C24_Witness ==
    /\ lastOp.op = "upsertMeta"
    /\ lastOp.err = "StorageFailure"
    /\ lastOp.arg.failAt = 4
    /\ Len(lastOp.arg.schema.Fields) = 2
    /\ lastOp.table \in DOMAIN table_meta
    /\ table_meta[lastOp.table].display_name # lastOp.arg.schema.DisplayName
    /\ MetaRowsOf(DB, lastOp.table) # <<>>
    /\ MetaRowsOf(DB, lastOp.table)[1].column_name # lastOp.arg.schema.Fields[1].Name

\* C25: a successful UpdateTable on a table whose catalog and physical
\* columns agree, handed one field that renames the existing column X to Y
\* and another field named X without an old name, leaves both X and Y in
\* the table's physical columns and in its catalog columns.
C25_RenamedNameReusedIsAdded ==
    [][(/\ lastOp'.op = "UpdateTable"
        /\ lastOp'.err = Ok
        /\ CatalogNames(lastOp'.table) = PhysicalNames(lastOp'.table))
       => LET fields == lastOp'.arg.Fields
              target == IF lastOp'.arg.Name = "" THEN lastOp'.table ELSE lastOp'.arg.Name
          IN  \A i, j \in DOMAIN fields :
                 (/\ fields[i].OldName \in CatalogNames(lastOp'.table)
                  /\ fields[i].OldName # fields[i].Name
                  /\ fields[j].Name = fields[i].OldName
                  /\ fields[j].OldName = "")
                 => /\ target \in DOMAIN phys'
                    /\ {fields[i].Name, fields[j].Name} \subseteq ColNames(phys'[target])
                    /\ {fields[i].Name, fields[j].Name} \subseteq
                          {column_meta'[k].column_name :
                              k \in {x \in DOMAIN column_meta' :
                                        column_meta'[x].table_name = target}}]_vars

\* C26: a CreateTable call that names a table the catalog already lists
\* leaves that table's physical columns and rows, its table_meta row and
\* its column_meta rows as they were, whatever the call returns.
C26_CreateOnManagedChangesNothing ==
    [][(lastOp'.op = "CreateTable" /\ lastOp'.table \in DOMAIN table_meta)
       => /\ lastOp'.table \in DOMAIN table_meta'
          /\ table_meta'[lastOp'.table] = table_meta[lastOp'.table]
          /\ SelectSeq(column_meta', LAMBDA r : r.table_name = lastOp'.table)
                = SelectSeq(column_meta, LAMBDA r : r.table_name = lastOp'.table)
          /\ lastOp'.table \in DOMAIN phys => /\ lastOp'.table \in DOMAIN phys'
                                              /\ phys'[lastOp'.table] = phys[lastOp'.table]]_vars

\* C27: after an UpdateRow that returned success for an existing row, every
\* catalog column of the table that the patch names holds the patch value
\* as coerced under the column's type hint (NULL when it coerces to nil),
\* and every other column holds what it held before.
C27_PatchValuesStored ==
    [][UpdatedExisting(lastOp')
       => LET table == lastOp'.table
              patch == lastOp'.arg.data
              meta  == MetaMap(DB, table)
              tbl   == phys[table]
          IN  /\ table \in DOMAIN phys'
              /\ \A i \in DOMAIN tbl.rows :
                    tbl.rows[i].id = lastOp'.arg.id =>
                    /\ i \in DOMAIN phys'[table].rows
                    /\ \A k \in DOMAIN tbl.cols :
                          LET c == tbl.cols[k].name IN
                          phys'[table].rows[i].vals[c] =
                             IF c \in DOMAIN meta /\ c \in DOMAIN patch
                             THEN ApplyAffinity(tbl.cols[k].aff,
                                     Bind(convertValue(meta[c].TypeHint, patch[c]).val))
                             ELSE tbl.rows[i].vals[c]]_vars

\* C28: when buildImportContext accepts a header row with allowUnknown
\* false, every header position is mapped to a column of the table's
\* catalog, positions resolved through the alias mapping included.
C28_AcceptedMappingIsCatalog ==
    (/\ lastOp.op = "buildImportContext"
     /\ lastOp.err = Ok
     /\ ~lastOp.arg.allowUnknown)
    => \A i \in DOMAIN lastOp.result.mapping :
          lastOp.result.mapping[i] \in CatalogNames(lastOp.table)

\* The payload gives no catalog column of the table a value that is not
\* null: each is left out or coerces to nil.
NothingToStore(table, data) ==
    \A n \in DOMAIN MetaMap(DB, table) :
        n \in DOMAIN data =>
            /\ ~convertValue(MetaMap(DB, table)[n].TypeHint, data[n]).err
            /\ convertValue(MetaMap(DB, table)[n].TypeHint, data[n]).val = GoNil

\* C29: InsertRow into a table whose catalog columns are its physical
\* columns and are all nullable, with a payload that gives no column a
\* non-null value, succeeds and adds exactly one row, all of whose logical
\* columns hold NULL.
C29_EmptyInsertAddsNullRow ==
    [][(/\ lastOp'.op = "InsertRow"
        /\ lastOp'.table \in DOMAIN phys
        /\ CatalogNames(lastOp'.table) = PhysicalNames(lastOp'.table)
        /\ CatalogNames(lastOp'.table) # {}
        /\ \A n \in DOMAIN MetaMap(DB, lastOp'.table) : MetaMap(DB, lastOp'.table)[n].AllowNull
        /\ \A i \in DOMAIN phys[lastOp'.table].cols : ~phys[lastOp'.table].cols[i].notnull
        /\ NothingToStore(lastOp'.table, StripHousekeeping(lastOp'.arg)))
       => LET before == phys[lastOp'.table].rows
              after  == phys'[lastOp'.table].rows
          IN  /\ lastOp'.err = Ok
              /\ Len(after) = Len(before) + 1
              /\ SubSeq(after, 1, Len(before)) = before
              /\ \A c \in DOMAIN after[Len(after)].vals :
                    after[Len(after)].vals[c] = SqlNull]_vars

\* C30: for the header row, alias mapping, physical columns and catalog of
\* a buildImportContext call there is one result only: any other run of
\* the call on them returns the mapping this one returned.
C30_ResolutionDeterministic ==
    lastOp.op = "buildImportContext" =>
    \A other \in buildImportContext(DB, lastOp.table, lastOp.arg.header,
                                    lastOp.arg.aliases, lastOp.arg.allowUnknown) :
        other.mapping = lastOp.result.mapping

====
